---- MODULE Spec2Model ----
(***************************************************************************)
(* State-machine model of the validator core of SentiVerse-AI/soulx:       *)
(* the Redis task queue with its deduplication set, the dispatcher with    *)
(* its miner leases, the handshake map, the scorer, the metagraph resync   *)
(* and the weight engine.  Every subsystem has its own specification       *)
(* (SpecQueue, SpecLease, ...) over the shared variables; a specification  *)
(* leaves the variables of the other subsystems unchanged.                 *)
(***************************************************************************)
EXTENDS Integers, Sequences, FiniteSets, TLC

VARIABLES
    \* ---- Redis task queue (redis_queue_manager.py, task_processor.py)
    QUEUE,        \* list COGNIFY_QUERY_QUEUE: task ids, head first
    SEEN,         \* set COGNIFY_QUERY_TASK_IDS
    ccStatus,     \* config service: status of every task
    prodPc,       \* task producer thread: position in run_task_processor
    prodBatch,    \* task producer thread: fetched tasks not yet enqueued
    consPc,       \* queue processor thread: position in listen_for_queue_tasks
    consTask,     \* queue processor thread: task popped by BLPOP (0: none)
    consBatch,    \* queue processor thread: refill tasks not yet enqueued
    tasks,        \* CognifyQueueProcessor.tasks: in-flight dispatch coroutines
    lastAdd,      \* history: the last add_task_to_queue call and its effect
    lifeCalls,    \* history: script runs per id since the id last left SEEN
    lifePushes,   \* history: RPUSHes per id since the id last left SEEN
    pushCount,    \* history: RPUSHes per id since start (2: two or more)
    srem_failed,  \* history: ids whose SREM failed after their pop
    clr_pc,       \* clear_queue: "idle", or "set" between its two deletes
    \* ---- dispatcher and miner leases (contender_allocator.py)
    apiLease,     \* lease API of the config service: miner -> holder (0: free)
    redisLease,   \* Redis fallback keys miner_task:<hotkey>: miner -> holder
    miner_tasks,  \* ContenderAllocator.miner_tasks of every validator
    dpc,          \* dispatch of every validator: position in process_queue_task
    contenders,   \* dispatch: the contender list fetched for the task
    dAttempt,     \* dispatch: attempt of process_task_with_contenders
    dIdx,         \* dispatch: index of the current contender
    dPassOk,      \* dispatch: successful_contenders of this pass is non-empty
    dQueryOk,     \* dispatch: outcome of the query awaiting the release
    dSession,     \* dispatch: the key the request of that query was sent
                  \* with: "stored", "fresh", or "none": nothing was sent
    dStatus,      \* dispatch: the HTTP status the miner answered that
                  \* query with (0: the miner gave no answer)
    contender_stats, \* dispatch: the stats handed to update_contender_stats
                  \* after that query, relative to the contender's own
    has_task,     \* dispatch: has_task, the answer of the last busy check
    contender_results, \* dispatch: <<miner, result>> per contender of the pass
    engaged,      \* history: miners this pass asked a lease for or queried
    rewarded,     \* history: the contenders of this pass, by their index in
                  \* the list, for which a reward record was reported
    dRaised,      \* history: the dispatch to the contender before the one
                  \* at hand ended in an exception
    set_answer,   \* history: what the lease API did with the set of the
                  \* contender that is about to be queried
    dEverOk,      \* history: some contender has processed the task
    reports,      \* history: statuses reported to the config service
    \* ---- weight engine (soulx_validator.py, scoring_results_manager.py)
    scoring_results,    \* ScoringResultsManager: quality scores per hotkey
    historical_scores,  \* ScoringResultsManager: historical score per hotkey
    blacklist,          \* config service: this validator is blacklisted
    blocks_since_last_weights,
    wpc,                \* main loop: "wait", or "loop" inside set_weights
    wIdx,               \* set_weights: the uid the loop has come to
    miner_indices,      \* set_weights: uids collected by the loop
    weights,            \* set_weights: final scores collected by the loop
    lastSet,            \* history: the last run of set_weights, whether
                        \* its loop read a positive current-cycle score
                        \* for a uid, and the vector it handed to
                        \* subtensor.set_weights; forgotten at the next
                        \* iteration of the main loop, which records that
                        \* it ran and what the chain reported to it until
                        \* set_weights returns
    \* ---- validator state and metagraph resync (validator/__init__.py)
    hotkeys,            \* self.hotkeys
    scores,             \* self.scores
    moving_avg_scores,  \* self.moving_avg_scores
    block_at_registration, \* self.block_at_registration
    rpc,                \* "start" before restore_state_and_evaluate, "loaded"
                        \* inside it before its resync, then "running"
    lastResync,         \* history: the arrays before the last resync and
                        \* the hotkeys of the metagraph it synced
    saved_state,        \* the validator's state key in Redis: "absent",
                        \* "pickled" (a blob pickle.loads accepts) or
                        \* "garbled" (a blob it raises on)
    lastRestore,        \* history: what restore_state_and_evaluate was given
                        \* and left in self.total_blocks_run, forgotten at
                        \* the next resync
    \* ---- scorer (scoring_system.py, common/utils.py)
    job,                \* the query result to score and its inputs
    outcome,            \* what adjust_contender_from_result made of it
    \* ---- handshake map (soulx_validator.py)
    cached_nodes_info,  \* hotkeys of the cached node list
    node_handshake_data,\* hotkey -> session entry
    hpc,                \* timer thread: "round" or "sleep", "exit" after
                        \* its loop
    \* ---- shutdown (soulx_validator.py, run: the finally block)
    running,            \* CognifyQueueProcessor.running
    tp_running,         \* CognifyTaskProcessor.running
    handshake_running,  \* SoulxValidator.handshake_running
    mpc,                \* main thread: "loop", then inside the finally
                        \* block before each stop, then "exited"
    \* ---- main loop and the chain's clock (soulx_validator.py, run)
    chain_block,        \* the block the chain is at
    current_block,      \* self.current_block, the block of the last resync
    next_sync_block,    \* run: the block the loop waits for
    last_update_block,  \* the chain's block of this validator's last
                        \* accepted set_weights
    lastIter,           \* history: the last iteration of the main loop
    \* ---- stream consumer (query/streaming.py, consume_generator)
    generator,          \* the texts the miner's stream has yet to yield
    loaded_jsons,       \* the chunks of the current text the inner loop
                        \* has yet to visit
    gpc,                \* "outer": at the async for; "inner": at the for
                        \* over the chunks; "done": after the loops;
                        \* "off": no stream
    first_message,      \* first_message
    text_jsons,         \* text_jsons: the accepted chunks
    out_tokens_counter, \* out_tokens_counter
    query_result,       \* the QueryResult built after the loops
    lacked,             \* history: a chunk without parsable content was met
    finished            \* history: a chunk with finish_reason was accepted

queueVars == <<QUEUE, SEEN, ccStatus, prodPc, prodBatch, consPc, consTask,
               consBatch, tasks, lastAdd, lifeCalls, lifePushes, pushCount,
                   srem_failed, clr_pc>>

leaseVars == <<apiLease, redisLease, miner_tasks, dpc, contenders, dAttempt,
               dIdx, dPassOk, dQueryOk, dSession, dStatus, contender_stats,
               has_task, contender_results, engaged, rewarded, set_answer, dRaised, dEverOk,
               reports>>

weightVars == <<scoring_results, historical_scores, blacklist,
                blocks_since_last_weights, wpc, wIdx, miner_indices, weights,
                lastSet>>

resyncVars == <<hotkeys, scores, moving_avg_scores, block_at_registration,
                rpc, lastResync, lastRestore, saved_state>>

scoreVars == <<job, outcome>>

handshakeVars == <<cached_nodes_info, node_handshake_data, hpc>>

stopVars == <<running, tp_running, handshake_running, mpc>>

syncVars == <<chain_block, current_block, next_sync_block, last_update_block,
              lastIter>>

streamVars == <<generator, loaded_jsons, gpc, first_message, text_jsons,
                out_tokens_counter, query_result, lacked, finished>>

vars == <<queueVars, leaseVars, weightVars, resyncVars, scoreVars,
          handshakeVars, stopVars, syncVars, streamVars>>

\* the variables a subsystem leaves alone
nonQueueVars ==
    <<leaseVars, weightVars, resyncVars, scoreVars, handshakeVars, stopVars,
      syncVars, streamVars>>
nonLeaseVars ==
    <<queueVars, weightVars, resyncVars, scoreVars, handshakeVars, stopVars,
      syncVars, streamVars>>
nonWeightVars ==
    <<queueVars, leaseVars, resyncVars, scoreVars, handshakeVars, stopVars,
      syncVars, streamVars>>
nonResyncVars ==
    <<queueVars, leaseVars, weightVars, scoreVars, handshakeVars, stopVars,
      syncVars, streamVars>>
nonHandshakeVars ==
    <<queueVars, leaseVars, weightVars, resyncVars, scoreVars, stopVars,
      syncVars, streamVars>>

-----------------------------------------------------------------------------
(* Bounds of the model *)

NumTasks == 1
MaxQueue == 2
MaxCount == 2
NumValidators == 2
NumMiners == 2
MaxContenders == 2
NumUids == 2
MaxResults == 1
MaxBlocks == 2
NumHotkeys == 3
Tempo == 2
MaxDown == 4
EvalInterval == 2
MaxTexts == 2
MaxChunks == 2
MaxChain == 8
MaxAge == 3

(* Program constants *)

MAX_CONCURRENT_TASKS == 1
max_retries == 3
\* weights_interval, in evaluation intervals
WeightsInterval == 2
alpha == 950
FINAL_MIN_SCORE == 800
OWNER_DEFAULT_SCORE == 200
MIN_WEIGHT_THRESHOLD == 1
\* in billionths
DEFAULT_PENALTY_COEFFICIENT == 1

TaskIds == 1..NumTasks

Min(a, b) == IF a < b THEN a ELSE b
Max(a, b) == IF a > b THEN a ELSE b

-----------------------------------------------------------------------------
(* Redis task queue *)

\* The server-side script of add_task_to_queue: SADD, and RPUSH only when the
\* id was new.  result is the script's reply: the new list length, or 0.
LuaEnqueueAlways(seen, queue, tid) ==
    [seen |-> seen \cup {tid}, queue |-> Append(queue, tid),
     result |-> Len(queue) + 1]

LuaEnqueue(seen, queue, tid) ==
    IF tid \notin seen
    THEN [seen |-> seen \cup {tid}, queue |-> Append(queue, tid),
          result |-> Len(queue) + 1]
    ELSE [seen |-> seen, queue |-> queue, result |-> 0]

NoAdd == [called |-> FALSE, ret |-> FALSE, ran |-> FALSE, grew |-> 0,
          wasSeen |-> FALSE, stuck |-> FALSE]

\* add_task_to_queue(task); up = FALSE is the path on which
\* the connection or the script raises and the method returns False.
AddTaskToQueue(tid, up) ==
    LET r == LuaEnqueue(SEEN, QUEUE, tid)
        ret == up /\ r.result # 0
    IN  /\ Len(QUEUE) < MaxQueue
        /\ QUEUE' = IF up THEN r.queue ELSE QUEUE
        /\ SEEN' = IF up THEN r.seen ELSE SEEN
        /\ lastAdd' = [called |-> TRUE, ret |-> ret, ran |-> up,
                       grew |-> (IF up THEN Len(r.queue) ELSE Len(QUEUE))
                                   - Len(QUEUE),
                       wasSeen |-> up /\ tid \in SEEN,
                       stuck |-> up /\ tid \in srem_failed]
        /\ lifeCalls' = IF up
                        THEN [lifeCalls EXCEPT ![tid] = Min(@ + 1, MaxCount)]
                        ELSE lifeCalls
        /\ lifePushes' = IF up /\ Len(r.queue) > Len(QUEUE)
                         THEN [lifePushes EXCEPT ![tid] = Min(@ + 1, MaxCount)]
                         ELSE lifePushes
        /\ pushCount' = IF up /\ Len(r.queue) > Len(QUEUE)
                        THEN [pushCount EXCEPT ![tid] = IF @ = 0 THEN 1 ELSE 2]
                        ELSE pushCount
        /\ UNCHANGED <<srem_failed, clr_pc>>

\* get_queue_length: LLEN, or 0 when the call raises.
GetQueueLength(up) == IF up THEN Len(QUEUE) ELSE 0

\* CognifyTaskClient.get_pending_tasks: the tasks the config service lists
\* as pending, or [] when the request fails.
GetPendingTasks(up) ==
    IF up THEN {t \in TaskIds : ccStatus[t] = "pending"} ELSE {}

\* CognifyTaskClient.update_task_status / complete_task: best effort.
ReportStatus(tid, status, up) ==
    ccStatus' = IF up THEN [ccStatus EXCEPT ![tid] = status] ELSE ccStatus

\* The config service creates a task.
CCCreateTask(t) ==
    /\ ccStatus[t] = "none"
    /\ ccStatus' = [ccStatus EXCEPT ![t] = "pending"]
    /\ UNCHANGED <<QUEUE, SEEN, prodPc, prodBatch, consPc, consTask, consBatch,
                   tasks, lastAdd, lifeCalls, lifePushes, pushCount,
                   srem_failed, clr_pc>>
    /\ UNCHANGED nonQueueVars

\* run_task_processor: the test of its loop
ProducerLoopPc == IF tp_running THEN "qlen" ELSE "exit"

\* run_task_processor: queue_length = get_queue_length(); fetch when it is
\* 0, else test the loop again at once.
ProducerQlen(up) ==
    /\ prodPc = "qlen"
    /\ prodPc' = IF GetQueueLength(up) = 0 THEN "fetch" ELSE ProducerLoopPc
    /\ prodPc' # prodPc
    /\ UNCHANGED <<QUEUE, SEEN, ccStatus, prodBatch, consPc, consTask,
                   consBatch, tasks, lastAdd, lifeCalls, lifePushes, pushCount,
                   srem_failed, clr_pc>>
    /\ UNCHANGED nonQueueVars

\* run_task_processor: tasks = get_pending_tasks(limit=batch_size); sleep and
\* start over when there are none.
ProducerFetch(up) ==
    /\ prodPc = "fetch"
    /\ prodBatch' = GetPendingTasks(up)
    /\ prodPc' = IF prodBatch' = {} THEN ProducerLoopPc ELSE "enqueue"
    /\ UNCHANGED <<QUEUE, SEEN, ccStatus, consPc, consTask, consBatch, tasks,
                   lastAdd, lifeCalls, lifePushes, pushCount,
                   srem_failed, clr_pc>>
    /\ UNCHANGED nonQueueVars

\* run_task_processor: one process_synthetic_task of the gathered batch, which
\* enqueues its message through _handle_task_execution.
ProducerEnqueue(t, up) ==
    /\ prodPc = "enqueue"
    /\ t \in prodBatch
    /\ AddTaskToQueue(t, up)
    /\ prodBatch' = prodBatch \ {t}
    /\ prodPc' = IF prodBatch' = {} THEN ProducerLoopPc ELSE "enqueue"
    /\ UNCHANGED <<ccStatus, consPc, consTask, consBatch, tasks>>
    /\ UNCHANGED nonQueueVars

\* clear_queue: DEL of the queue list.  An exception (up = FALSE) ends the
\* call with False before the second delete.
ClearQueueList(up) ==
    /\ clr_pc = "idle"
    /\ QUEUE' = IF up THEN <<>> ELSE QUEUE
    /\ clr_pc' = IF up THEN "set" ELSE "idle"
    /\ UNCHANGED <<SEEN, ccStatus, prodPc, prodBatch, consPc, consTask,
                   consBatch, tasks, lastAdd, lifeCalls, lifePushes,
                   pushCount, srem_failed>>
    /\ UNCHANGED nonQueueVars

\* clear_queue: DEL of the dedup set, a command of its own sent after the
\* first; then the return.
ClearQueueSet(up) ==
    /\ clr_pc = "set"
    /\ SEEN' = IF up THEN {} ELSE SEEN
    /\ lifeCalls' = IF up THEN [t \in TaskIds |-> 0] ELSE lifeCalls
    /\ lifePushes' = IF up THEN [t \in TaskIds |-> 0] ELSE lifePushes
    /\ srem_failed' = IF up THEN {} ELSE srem_failed
    /\ clr_pc' = "idle"
    /\ UNCHANGED <<QUEUE, ccStatus, prodPc, prodBatch, consPc, consTask,
                   consBatch, tasks, lastAdd, pushCount>>
    /\ UNCHANGED nonQueueVars

\* listen_for_queue_tasks, top of the outer loop: drop the finished dispatch
\* coroutines, then pop while fewer than MAX_CONCURRENT_TASKS are in flight,
\* else go on to the length check.
Purged(ts) == SelectSeq(ts, LAMBDA d : d.stage # "done")

InnerLoopPcAlways(ts) == "pop"

InnerLoopPc(ts) == IF Len(ts) < MAX_CONCURRENT_TASKS THEN "pop" ELSE "qlen"

\* listen_for_queue_tasks: the test of the outer loop and, while the
\* processor is running, the top of the next round
NextRound ==
    IF running
    THEN tasks' = Purged(tasks) /\ consPc' = InnerLoopPc(tasks')
    ELSE tasks' = tasks /\ consPc' = "exit"

\* get_task_from_queue: BLPOP.  A timeout or an exception (up = FALSE) yields
\* None, which leaves the inner loop; a popped task goes on to its SREM.
ConsumerPop(up) ==
    /\ consPc = "pop"
    /\ IF up /\ QUEUE # <<>>
       THEN /\ consTask' = Head(QUEUE)
            /\ QUEUE' = Tail(QUEUE)
            /\ consPc' = "srem"
       ELSE /\ consPc' = "qlen"
            /\ UNCHANGED <<QUEUE, consTask>>
    /\ UNCHANGED <<SEEN, ccStatus, prodPc, prodBatch, consBatch, tasks,
                   lastAdd, lifeCalls, lifePushes, pushCount,
                   srem_failed, clr_pc>>
    /\ UNCHANGED nonQueueVars

\* get_task_from_queue: what it returns for a popped task (0: None) after
\* the SREM of its id, which went through (sremOk) or raised
PoppedTaskUnlessSremFails(task, sremOk) == IF sremOk THEN task ELSE 0

PoppedTask(task, sremOk) == task

\* get_task_from_queue: SREM of the popped id, a failure is swallowed; then
\* listen_for_queue_tasks creates the dispatch coroutine for the task and
\* tests the inner loop's condition again.
ConsumerSrem(up) ==
    /\ consPc = "srem"
    /\ SEEN' = IF up THEN SEEN \ {consTask} ELSE SEEN
    /\ lifeCalls' = IF up /\ consTask \in SEEN
                    THEN [lifeCalls EXCEPT ![consTask] = 0] ELSE lifeCalls
    /\ lifePushes' = IF up /\ consTask \in SEEN
                     THEN [lifePushes EXCEPT ![consTask] = 0] ELSE lifePushes
    /\ tasks' = IF PoppedTask(consTask, up) # 0
                THEN Append(tasks, [id |-> PoppedTask(consTask, up),
                                    stage |-> "created"])
                ELSE tasks
    /\ consTask' = 0
    /\ consPc' = IF PoppedTask(consTask, up) # 0
                 THEN InnerLoopPc(tasks') ELSE "qlen"
    /\ UNCHANGED <<QUEUE, ccStatus, prodPc, prodBatch, consBatch, lastAdd,
                   pushCount>>
    /\ srem_failed' = IF up THEN srem_failed
                    ELSE srem_failed \cup {consTask}
    /\ UNCHANGED clr_pc
    /\ UNCHANGED nonQueueVars

\* listen_for_queue_tasks (and the start of run_queue_processor):
\* queue_length = get_queue_length(); refill when it is 0, else next round.
ConsumerQlen(up) ==
    /\ consPc = "qlen"
    /\ IF GetQueueLength(up) = 0
       THEN consPc' = "fetch" /\ tasks' = tasks
       ELSE NextRound
    /\ UNCHANGED <<QUEUE, SEEN, ccStatus, prodPc, prodBatch, consTask,
                   consBatch, lastAdd, lifeCalls, lifePushes, pushCount,
                   srem_failed, clr_pc>>
    /\ UNCHANGED nonQueueVars

\* listen_for_queue_tasks: new_tasks = fetch_tasks_from_center(batch_size=20);
\* with none, sleep and start the next round.
ConsumerFetch(up) ==
    /\ consPc = "fetch"
    /\ consBatch' = GetPendingTasks(up)
    /\ IF consBatch' = {}
       THEN NextRound
       ELSE tasks' = tasks /\ consPc' = "add"
    /\ UNCHANGED <<QUEUE, SEEN, ccStatus, prodPc, prodBatch, consTask,
                   lastAdd, lifeCalls, lifePushes, pushCount,
                   srem_failed, clr_pc>>
    /\ UNCHANGED nonQueueVars

\* add_tasks_to_queue: one add_task_to_queue of the refill batch; after the
\* last one the next round starts.
ConsumerAdd(t, up) ==
    /\ consPc = "add"
    /\ t \in consBatch
    /\ AddTaskToQueue(t, up)
    /\ consBatch' = consBatch \ {t}
    /\ IF consBatch' = {}
       THEN NextRound
       ELSE tasks' = tasks /\ consPc' = "add"
    /\ UNCHANGED <<ccStatus, prodPc, prodBatch, consTask>>
    /\ UNCHANGED nonQueueVars

\* process_queue_task, seen from the queue: the "processing" report.
DispatchMarkProcessing(i, up) ==
    /\ i \in 1..Len(tasks)
    /\ tasks[i].stage = "created"
    /\ ReportStatus(tasks[i].id, "processing", up)
    /\ tasks' = [tasks EXCEPT ![i].stage = "running"]
    /\ UNCHANGED <<QUEUE, SEEN, prodPc, prodBatch, consPc, consTask, consBatch,
                   lastAdd, lifeCalls, lifePushes, pushCount,
                   srem_failed, clr_pc>>
    /\ UNCHANGED nonQueueVars

\* process_queue_task, seen from the queue: the terminal report that ends the
\* coroutine (the contender loop is modelled in the dispatcher's specification).
DispatchFinish(i, success, up) ==
    /\ i \in 1..Len(tasks)
    /\ tasks[i].stage = "running"
    /\ ReportStatus(tasks[i].id, IF success THEN "completed" ELSE "failed", up)
    /\ tasks' = [tasks EXCEPT ![i].stage = "done"]
    /\ UNCHANGED <<QUEUE, SEEN, prodPc, prodBatch, consPc, consTask, consBatch,
                   lastAdd, lifeCalls, lifePushes, pushCount,
                   srem_failed, clr_pc>>
    /\ UNCHANGED nonQueueVars

-----------------------------------------------------------------------------
(* Dispatcher and miner leases: contender_allocator.py and                  *)
(* CognifyQueueProcessor.process_queue_task.  A step is one remote call     *)
(* (lease API, Redis, config service, miner) with the synchronous code that *)
(* follows it.  The environment chooses the outcome of every call: api is   *)
(* "ok" (the lease API answered), "err" (the request failed) or "none" (no  *)
(* API client could be built); rUp tells whether Redis answered.            *)
(* The lease API grants a set on a free miner and refuses one on a miner    *)
(* that is held; a remove deletes the miner's entry whoever holds it.       *)

Validators == 1..NumValidators
Miners == 1..NumMiners
ApiEnv == {"ok", "err", "none"}

ContenderLists ==
    {s \in UNION {[1..n -> Miners] : n \in 0..MaxContenders} :
        \A i, j \in DOMAIN s : i # j => s[i] # s[j]}

CurMinerFromEnd(v) == contenders[v][Len(contenders[v]) + 1 - dIdx[v]]

CurMiner(v) == contenders[v][dIdx[v]]

CheckMinerHasTaskRedis(v, m, rUp) ==
    IF rUp THEN redisLease[m] # 0 ELSE m \in miner_tasks[v]

CheckMinerHasTask(v, m, api, rUp) ==
    CASE api = "ok"  -> apiLease[m] # 0
      [] api = "err" -> FALSE
      [] OTHER       -> CheckMinerHasTaskRedis(v, m, rUp)

SetMinerTaskRedis(v, m, rUp) ==
    /\ redisLease' = IF rUp THEN [redisLease EXCEPT ![m] = v] ELSE redisLease
    /\ miner_tasks' = IF rUp THEN miner_tasks
                      ELSE [miner_tasks EXCEPT ![v] = @ \cup {m}]

\* what MinerTaskApiClient.set_miner_task does with a set: no_client, no
\* API client could be built; failed, the request failed; granted or
\* refused, the API's answer
ApiSetAnswer(m, api) ==
    CASE api = "none"     -> "no_client"
      [] api = "err"      -> "failed"
      [] apiLease[m] = 0  -> "granted"
      [] OTHER            -> "refused"

SetMinerTask(v, m, api, rUp) ==
    IF api = "ok" /\ apiLease[m] = 0
    THEN /\ apiLease' = [apiLease EXCEPT ![m] = v]
         /\ UNCHANGED <<redisLease, miner_tasks>>
    ELSE /\ UNCHANGED apiLease
         /\ SetMinerTaskRedis(v, m, rUp)

RemoveMinerTaskRedis(v, m, rUp) ==
    /\ redisLease' = IF rUp THEN [redisLease EXCEPT ![m] = 0] ELSE redisLease
    /\ miner_tasks' = [miner_tasks EXCEPT ![v] = @ \ {m}]

\* ans: the API's answer to the removal of an entry that does not exist
RemoveMinerTask(v, m, api, ans, rUp) ==
    LET success == api = "ok" /\ (apiLease[m] # 0 \/ ans)
    IN  /\ apiLease' = IF api = "ok" THEN [apiLease EXCEPT ![m] = 0] ELSE apiLease
        /\ IF success
           THEN /\ miner_tasks' = [miner_tasks EXCEPT ![v] = @ \ {m}]
                /\ UNCHANGED redisLease
           ELSE RemoveMinerTaskRedis(v, m, rUp)

\* no call of _update_contender_stats
NoStats == [called |-> FALSE, requests_429 |-> 0, requests_500 |-> 0]

\* _update_contender_stats: the counters it sends, as increments of the
\* counters the contender was fetched with
UpdateContenderStats(success) ==
    [called |-> TRUE, requests_429 |-> 0,
     requests_500 |-> IF success THEN 0 ELSE 1]

TerminalStatusCompleted(success) == "completed"

TerminalStatus(success) == IF success THEN "completed" ELSE "failed"

\* the locals of process_task_with_contenders go out of scope on return
Return(v, success) ==
    /\ dpc' = [dpc EXCEPT ![v] = "done"]
    /\ reports' = [reports EXCEPT ![v] = Append(@, TerminalStatus(success))]
    /\ contenders' = [contenders EXCEPT ![v] = <<>>]
    /\ dAttempt' = [dAttempt EXCEPT ![v] = 0]
    /\ dIdx' = [dIdx EXCEPT ![v] = 1]
    /\ dPassOk' = [dPassOk EXCEPT ![v] = FALSE]

MoveOnOnePass(v, ok, res) ==
    LET passOk == dPassOk[v] \/ ok
    IN  /\ dEverOk' = [dEverOk EXCEPT ![v] = @ \/ ok]
        /\ dQueryOk' = [dQueryOk EXCEPT ![v] = FALSE]
        /\ dSession' = [dSession EXCEPT ![v] = "none"]
        /\ dStatus' = [dStatus EXCEPT ![v] = 0]
        /\ contender_stats' = [contender_stats EXCEPT ![v] = NoStats]
        /\ contender_results' =
              [contender_results EXCEPT ![v] = Append(@, <<CurMiner(v), res>>)]
        /\ IF dIdx[v] < Len(contenders[v])
           THEN /\ dIdx' = [dIdx EXCEPT ![v] = @ + 1]
                /\ dPassOk' = [dPassOk EXCEPT ![v] = passOk]
                /\ dpc' = [dpc EXCEPT ![v] = "check"]
                /\ UNCHANGED <<contenders, dAttempt, reports>>
           ELSE IF passOk
           THEN Return(v, TRUE)
           ELSE IF dAttempt[v] < 0
           THEN /\ dpc' = [dpc EXCEPT ![v] = "backoff"]
                /\ UNCHANGED <<contenders, dAttempt, dIdx, dPassOk, reports>>
           ELSE Return(v, FALSE)

\* the contender loop records res for its contender, whose outcome is ok,
\* and moves on; after a pass without a success it sleeps retry_delay
MoveOn(v, ok, res) ==
    LET passOk == dPassOk[v] \/ ok
    IN  /\ dEverOk' = [dEverOk EXCEPT ![v] = @ \/ ok]
        /\ dQueryOk' = [dQueryOk EXCEPT ![v] = FALSE]
        /\ dSession' = [dSession EXCEPT ![v] = "none"]
        /\ dStatus' = [dStatus EXCEPT ![v] = 0]
        /\ contender_stats' = [contender_stats EXCEPT ![v] = NoStats]
        /\ contender_results' =
              [contender_results EXCEPT ![v] = Append(@, <<CurMiner(v), res>>)]
        /\ IF dIdx[v] < Len(contenders[v])
           THEN /\ dIdx' = [dIdx EXCEPT ![v] = @ + 1]
                /\ dPassOk' = [dPassOk EXCEPT ![v] = passOk]
                /\ dpc' = [dpc EXCEPT ![v] = "check"]
                /\ UNCHANGED <<contenders, dAttempt, reports>>
           ELSE IF passOk
           THEN Return(v, TRUE)
           ELSE IF dAttempt[v] < max_retries - 1
           THEN /\ dpc' = [dpc EXCEPT ![v] = "backoff"]
                /\ UNCHANGED <<contenders, dAttempt, dIdx, dPassOk, reports>>
           ELSE Return(v, FALSE)

\* the sleep between two passes ends and the next pass starts
Backoff(v) ==
    /\ dpc[v] = "backoff"
    /\ dAttempt' = [dAttempt EXCEPT ![v] = @ + 1]
    /\ dIdx' = [dIdx EXCEPT ![v] = 1]
    /\ dPassOk' = [dPassOk EXCEPT ![v] = FALSE]
    /\ contender_results' = [contender_results EXCEPT ![v] = <<>>]
    /\ engaged' = [engaged EXCEPT ![v] = {}]
    /\ rewarded' = [rewarded EXCEPT ![v] = <<>>]
    /\ UNCHANGED set_answer
    /\ dRaised' = [dRaised EXCEPT ![v] = FALSE]
    /\ dpc' = [dpc EXCEPT ![v] = "check"]
    /\ UNCHANGED <<apiLease, redisLease, miner_tasks, contenders, dQueryOk, dSession, dStatus,
                   contender_stats, has_task, dEverOk, reports>>
    /\ UNCHANGED nonLeaseVars

\* process_queue_task up to the "processing" report
StartDispatch(v) ==
    /\ dpc[v] = "idle"
    /\ dpc' = [dpc EXCEPT ![v] = "select"]
    /\ reports' = [reports EXCEPT ![v] = Append(@, "processing")]
    /\ UNCHANGED <<apiLease, redisLease, miner_tasks, contenders, dAttempt,
                   dIdx, dPassOk, dQueryOk, dSession, dStatus, contender_stats,
                   has_task, contender_results, engaged, rewarded, set_answer, dRaised, dEverOk>>
    /\ UNCHANGED nonLeaseVars

\* get_contenders_for_task returns cs; exc: the selection raises
SelectContenders(v, cs, exc) ==
    /\ dpc[v] = "select"
    /\ IF exc \/ cs = <<>>
       THEN Return(v, FALSE)
       ELSE /\ contenders' = [contenders EXCEPT ![v] = cs]
            /\ dpc' = [dpc EXCEPT ![v] = "check"]
            /\ UNCHANGED <<dAttempt, dIdx, dPassOk, reports>>
    /\ UNCHANGED <<apiLease, redisLease, miner_tasks, dQueryOk, dSession, dStatus, has_task,
                   contender_stats, contender_results, engaged, rewarded, set_answer, dRaised,
                   dEverOk>>
    /\ UNCHANGED nonLeaseVars

CheckBusyIgnored(v, api, rUp) ==
    /\ dpc[v] = "check"
    /\ has_task' = [has_task EXCEPT ![v] =
                       CheckMinerHasTask(v, CurMiner(v), api, rUp)]
    /\ dpc' = [dpc EXCEPT ![v] = "allocate"]
    /\ UNCHANGED <<contenders, dAttempt, dIdx, dPassOk, dQueryOk, dSession, dStatus,
                   contender_stats, contender_results, dEverOk, reports>>
    /\ UNCHANGED <<apiLease, redisLease, miner_tasks, engaged, rewarded, set_answer>>
    /\ dRaised' = [dRaised EXCEPT ![v] = FALSE]
    /\ UNCHANGED nonLeaseVars

\* the busy check of the contender loop
CheckBusy(v, api, rUp) ==
    /\ dpc[v] = "check"
    /\ has_task' = [has_task EXCEPT ![v] =
                       CheckMinerHasTask(v, CurMiner(v), api, rUp)]
    /\ IF has_task'[v]
       THEN MoveOn(v, FALSE, "skipped_busy")
       ELSE /\ dpc' = [dpc EXCEPT ![v] = "allocate"]
            /\ UNCHANGED <<contenders, dAttempt, dIdx, dPassOk, dQueryOk, dSession, dStatus,
                           contender_stats, contender_results, dEverOk, reports>>
    /\ UNCHANGED <<apiLease, redisLease, miner_tasks, engaged, rewarded, set_answer>>
    /\ dRaised' = [dRaised EXCEPT ![v] = FALSE]
    /\ UNCHANGED nonLeaseVars

\* allocate_task_to_contender: its own check
AllocateCheck(v, api, rUp) ==
    /\ dpc[v] = "allocate"
    /\ IF CheckMinerHasTask(v, CurMiner(v), api, rUp)
       THEN MoveOn(v, FALSE, "false")
       ELSE /\ dpc' = [dpc EXCEPT ![v] = "set"]
            /\ UNCHANGED <<contenders, dAttempt, dIdx, dPassOk, dQueryOk, dSession, dStatus,
                           contender_stats, contender_results, dEverOk, reports>>
    /\ UNCHANGED <<apiLease, redisLease, miner_tasks, has_task, engaged,
                   rewarded, set_answer, dRaised>>
    /\ UNCHANGED nonLeaseVars

\* allocate_task_to_contender: the set, which always reports success
AllocateSet(v, api, rUp) ==
    /\ dpc[v] = "set"
    /\ SetMinerTask(v, CurMiner(v), api, rUp)
    /\ engaged' = [engaged EXCEPT ![v] = @ \cup {CurMiner(v)}]
    /\ UNCHANGED dRaised
    /\ set_answer' = [set_answer EXCEPT ![v] = ApiSetAnswer(CurMiner(v), api)]
    /\ UNCHANGED rewarded
    /\ dpc' = [dpc EXCEPT ![v] = "process"]
    /\ UNCHANGED <<contenders, dAttempt, dIdx, dPassOk, dQueryOk, dSession, dStatus, has_task,
                   contender_stats, contender_results, dEverOk, reports>>
    /\ UNCHANGED nonLeaseVars

\* the HTTP status of the miner's answer in a query that ends as result
AnswerStatus(result) ==
    CASE result = "ok"       -> 200
      [] result = "fail_429" -> 429
      [] result = "fail"     -> 500
      [] OTHER               -> 0

\* consume_generator awaits adjust_contender_from_result before it returns,
\* and that reports a reward record for a query that succeeded
RewardReported(result) == result = "ok"

\* an exception in process_task_with_contender reaches the handler of
\* process_queue_task, which reports the task as failed
OnRaiseEscapes(v) ==
    /\ Return(v, FALSE)
    /\ UNCHANGED <<contender_results, dEverOk, dQueryOk, dSession, dStatus,
                   contender_stats>>

\* an exception in process_task_with_contender before the query: its
\* except clause returns False to the contender loop
OnRaise(v) == MoveOn(v, FALSE, "false")

\* the key _create_node_for_query takes for a request: the stored one if
\* the entry of the miner has handshake_success, a fresh one otherwise
SessionUsed(sess) == IF sess = "ok" THEN "stored" ELSE "fresh"

\* process_task_with_contender up to the end of the query; sess: the entry
\* the allocator's node_handshake_data holds for the miner
ProcessQuery(v, result, sess) ==
    /\ dpc[v] = "process"
    /\ engaged' = [engaged EXCEPT ![v] = @ \cup {CurMiner(v)}]
    /\ rewarded' = IF RewardReported(result)
                   THEN [rewarded EXCEPT ![v] = Append(@, dIdx[v])]
                   ELSE rewarded
    /\ set_answer' = [set_answer EXCEPT ![v] = "none"]
    /\ dRaised' = [dRaised EXCEPT ![v] = (result = "raise")]
    /\ IF result \in {"no_config", "raise"}
       THEN IF result = "raise" THEN OnRaise(v)
            ELSE MoveOn(v, FALSE, "false")
       ELSE /\ dQueryOk' = [dQueryOk EXCEPT ![v] = (result = "ok")]
            /\ dStatus' = [dStatus EXCEPT ![v] = AnswerStatus(result)]
            /\ contender_stats' = [contender_stats EXCEPT ![v] =
                                      UpdateContenderStats(result = "ok")]
            /\ dSession' = [dSession EXCEPT ![v] =
                               IF result = "no_node" THEN "none"
                               ELSE SessionUsed(sess)]
            /\ dpc' = [dpc EXCEPT ![v] = "release"]
            /\ UNCHANGED <<contenders, dAttempt, dIdx, dPassOk,
                           contender_results, dEverOk, reports>>
    /\ UNCHANGED <<apiLease, redisLease, miner_tasks, has_task>>
    /\ UNCHANGED nonLeaseVars

\* process_task_with_contender: the release and the return
ReleaseLease(v, api, ans, rUp) ==
    /\ dpc[v] = "release"
    /\ RemoveMinerTask(v, CurMiner(v), api, ans, rUp)
    /\ MoveOn(v, dQueryOk[v], IF dQueryOk[v] THEN "true" ELSE "false")
    /\ UNCHANGED <<has_task, engaged, rewarded, set_answer, dRaised>>
    /\ UNCHANGED nonLeaseVars

\* no_config: no task config; raise: an exception before the query;
\* no_node: no node data for the hotkey, nothing is sent; ok, fail: the
\* request was sent and the query succeeded or failed; fail_429: the
\* request was sent and the miner answered 429
QueryOutcomes == {"no_config", "raise", "no_node", "ok", "fail", "fail_429"}
SessionStates == {"ok", "not_ok", "missing"}

\* the outcomes that differ for the contender loop: whatever the status of
\* a failed answer, the loop sees a query that failed
RetryOutcomes == QueryOutcomes \ {"fail_429"}

\* the contender lists up to a renaming of the miners
OrderedLists == {s \in ContenderLists : \A i \in DOMAIN s : s[i] = i}

\* the lists the config service offers when validators compete for a miner
ContendedLists == {s \in ContenderLists : \A i \in DOMAIN s : s[i] = 1}

-----------------------------------------------------------------------------
(* Weight engine: SoulxValidator.run and SoulxValidator.set_weights with    *)
(* the ScoringResultsManager.  Scores and weights are integers in           *)
(* thousandths; a normalised weight is the pair of its numerator in         *)
(* lastSet.weights and the common denominator lastSet.den.  Time is   *)
(* counted in evaluation intervals.  The loop of set_weights over the uids  *)
(* runs in the main thread while the dispatcher's thread adds scoring       *)
(* results, so it is modelled one uid per step.                             *)

Uids == 0..(NumUids - 1)
NoOwner == NumUids
QualityScores == {0, 1000}
\* a sample of the values of round(random.uniform(0.8, 1.0), 2)
RandomScores == {800, 1000}
\* what the loop of set_weights finds for a uid: "skip": ip 0.0.0.0, or
\* inactive while CHECK_NODE_ACTIVE is set, or the lookup raises;
\* "validator": a neuron with a validator permit and no stake among the
\* miners'; "nostake", "stake": a miner without stake, or with half of it
NeuronKinds == {"skip", "validator", "nostake", "stake"}

\* the neurons the code treats as miners, and the ones it skips
MinerKinds == NeuronKinds \ {"validator"}

\* the neurons that are to get no weight
Unfit(kind) == kind \in {"skip", "validator"}
ChainEnv == {"down", "config_down", "accept", "reject"}

RECURSIVE SeqSum(_)
SeqSum(s) == IF s = <<>> THEN 0 ELSE Head(s) + SeqSum(Tail(s))

Zeros(n) == [i \in 1..n |-> 0]

get_current_cycle_score(u) ==
    IF scoring_results[u] = <<>> THEN 0
    ELSE SeqSum(scoring_results[u]) \div Len(scoring_results[u])

get_historical_score(u) == historical_scores[u]

\* _start_new_cycle: the historical score of uid u after the cycle that
\* holds its scoring results is rolled into it
RolledScore(u) ==
    IF historical_scores[u] = 0 THEN get_current_cycle_score(u)
    ELSE (3 * get_current_cycle_score(u) + 7 * historical_scores[u]) \div 10

\* the final score of uid u: kind tells whether the neuron holds half of the
\* miners' stake or none, draw is the random replacement
FinalScore(u, kind, draw) ==
    LET hist == IF get_historical_score(u) = 0 THEN alpha
                ELSE get_historical_score(u)
        stake_weight == IF kind = "stake" THEN 100 ELSE 0
        final_score == stake_weight
                       + (700 * get_current_cycle_score(u) + 100 * hist) \div 1000
    IN  IF final_score < FINAL_MIN_SCORE \/ final_score > 1000
        THEN draw ELSE final_score

\* penalty coefficients of the config service, in billionths: the default
\* and 0.001
PenaltyCoefficients == {DEFAULT_PENALTY_COEFFICIENT, 1000000}

\* ConfigManager.apply_whitelist_penalty on a score in thousandths
apply_whitelist_penalty(bl, wl, coeff, original_score) ==
    IF bl THEN 0
    ELSE IF wl THEN original_score
    ELSE (original_score * coeff) \div 1000000000

IsValidatorBlacklistedNever(bl) == FALSE

IsValidatorBlacklisted(bl) == bl

\* set_weights after its loop: from the lists of the loop to what is
\* submitted.  submit: subtensor.set_weights is called with uids and weights.
WeightsToSubmit(indices, ws, owner) ==
    IF ws = <<>> \/ \A i \in DOMAIN ws : ws[i] = 0
    THEN IF owner = NoOwner
         THEN [submit |-> FALSE, uids |-> indices, weights |-> ws, den |-> 1]
         ELSE [submit |-> TRUE, uids |-> [i \in 1..NumUids |-> i - 1],
               weights |-> Zeros(NumUids), den |-> 1]
    ELSE LET kept == [i \in DOMAIN ws |->
                         IF ws[i] >= MIN_WEIGHT_THRESHOLD THEN ws[i] ELSE 0]
         IN  IF SeqSum(kept) > 0
             THEN [submit |-> TRUE, uids |-> indices, weights |-> kept,
                   den |-> SeqSum(kept)]
             ELSE IF owner # NoOwner
             THEN [submit |-> TRUE, uids |-> indices,
                   weights |-> [Zeros(NumUids) EXCEPT ![owner + 1] = OWNER_DEFAULT_SCORE],
                   den |-> 1000]
             ELSE [submit |-> TRUE, uids |-> indices, weights |-> kept,
                   den |-> 1]

NoSet == [ran |-> FALSE, blacklisted |-> FALSE, ret |-> FALSE,
          submitted |-> FALSE, kept |-> TRUE, scored |-> FALSE, zero |-> FALSE,
          owner |-> NoOwner, uids |-> <<>>, weights |-> <<>>, den |-> 1,
          cycle |-> <<>>, computed |-> <<>>, whitelisted |-> TRUE,
          penalty |-> 0, cleared |-> FALSE, rolled |-> TRUE,
          looped |-> FALSE, chain |-> 0, weighed_unfit |-> FALSE,
          late |-> FALSE]

\* a task thread records the quality score of a successful query; late:
\* the loop of a running set_weights has already read the uid's scores
AddScoringResult(u, q) ==
    /\ Len(scoring_results[u]) < MaxResults
    /\ scoring_results' = [scoring_results EXCEPT ![u] = Append(@, q)]
    /\ lastSet' = [lastSet EXCEPT !.late = @ \/ (wpc = "loop" /\ u < wIdx)]
    /\ UNCHANGED <<historical_scores, blacklist, blocks_since_last_weights,
                   wpc, wIdx, miner_indices, weights>>
    /\ UNCHANGED nonWeightVars

\* the config service puts the validator on its blacklist or takes it off
SetBlacklist(b) ==
    /\ blacklist # b
    /\ blacklist' = b
    /\ UNCHANGED <<scoring_results, historical_scores,
                   blocks_since_last_weights, wpc, wIdx, miner_indices,
                   weights, lastSet>>
    /\ UNCHANGED nonWeightVars

\* a value of the chain's blocks_since_last_update below weights_interval
\* and the first one that reaches it
BlocksSinceLastUpdate == {WeightsInterval - 1, WeightsInterval}

WeightsDueEither(blocks_since_last, local) ==
    blocks_since_last >= WeightsInterval \/ local >= WeightsInterval

\* the main loop's test before set_weights
WeightsDue(blocks_since_last, local) ==
    blocks_since_last >= WeightsInterval /\ local >= WeightsInterval

\* one iteration of the main loop up to the call of set_weights;
\* blocks_since_last: what the chain reports as blocks_since_last_update
MainLoop(blocks_since_last) ==
    /\ wpc = "wait"
    /\ blocks_since_last_weights' = Min(blocks_since_last_weights + 1, MaxBlocks)
    /\ IF WeightsDue(blocks_since_last, blocks_since_last_weights')
       THEN /\ wpc' = "loop"
            /\ wIdx' = 0
            /\ miner_indices' = <<>>
            /\ weights' = <<>>
       ELSE UNCHANGED <<wpc, wIdx, miner_indices, weights>>
    /\ lastSet' = [NoSet EXCEPT !.looped = TRUE, !.chain = blocks_since_last]
    /\ UNCHANGED <<scoring_results, historical_scores, blacklist>>
    /\ UNCHANGED nonWeightVars

\* set_weights: the loop's body for uid wIdx
WeighUid(kind, draw) ==
    /\ wpc = "loop"
    /\ wIdx < NumUids
    /\ IF kind # "skip" /\ get_current_cycle_score(wIdx) > 0
       THEN /\ miner_indices' = Append(miner_indices, wIdx)
            /\ weights' = Append(weights, FinalScore(wIdx, kind, draw))
       ELSE UNCHANGED <<miner_indices, weights>>
    /\ wIdx' = wIdx + 1
    /\ lastSet' = [lastSet EXCEPT !.cycle =
                      Append(@, kind # "skip"
                                /\ get_current_cycle_score(wIdx) > 0),
                                  !.weighed_unfit =
                      @ \/ (Unfit(kind) /\ miner_indices' # miner_indices)]
    /\ UNCHANGED <<scoring_results, historical_scores, blacklist,
                   blocks_since_last_weights, wpc>>
    /\ UNCHANGED nonWeightVars

BlocksAfterSetWeightsReset(success, blocks) == 0

\* the main loop's blocks_since_last_weights after set_weights has returned
BlocksAfterSetWeights(success, blocks) == IF success THEN 0 ELSE blocks

\* set_weights from the blacklist check to its return, and the main loop's
\* handling of the result.  env "down": a chain query raises; "config_down":
\* the validator config cannot be fetched, which raises as well.
\* wl, coeff: the whitelist membership and the penalty coefficient the
\* config service holds for the validator during the run
SubmitWeights(env, owner, wl, coeff) ==
  /\ wpc = "loop"
  /\ wIdx = NumUids
  /\ \E sub \in {WeightsToSubmit(miner_indices, weights, owner)} :
    LET raised == env \in {"down", "config_down"}
        refused == ~raised /\ IsValidatorBlacklisted(blacklist)
        called == ~raised /\ ~refused /\ sub.submit
        \* get_subnet_owner_uid is only called for an all-zero vector
        zero == called /\ (weights = <<>>
                           \/ \A i \in DOMAIN weights : weights[i] = 0)
        success == called /\ env = "accept"
    IN  /\ scoring_results' = IF success THEN [u \in Uids |-> <<>>]
                              ELSE scoring_results
        /\ historical_scores' = IF success THEN [u \in Uids |-> 0]
                                ELSE historical_scores
        /\ blocks_since_last_weights' =
              BlocksAfterSetWeights(success, blocks_since_last_weights)
        /\ lastSet' = [ran |-> TRUE, blacklisted |-> blacklist, ret |-> success,
                       submitted |-> called,
                       kept |-> /\ scoring_results' = scoring_results
                                /\ historical_scores' = historical_scores
                                /\ blocks_since_last_weights' = blocks_since_last_weights,
                       scored |-> \E u \in Uids : scoring_results[u] # <<>>,
                       zero |-> zero,
                       owner |-> IF zero THEN owner ELSE NoOwner,
                       uids |-> IF called THEN sub.uids ELSE <<>>,
                       weights |-> IF called THEN sub.weights ELSE <<>>,
                       den |-> IF called THEN sub.den ELSE 1,
                       cycle |-> lastSet.cycle,
                       computed |-> IF called THEN weights ELSE <<>>,
                       whitelisted |-> called => wl,
                       penalty |-> IF called /\ ~wl THEN coeff ELSE 0,
                       cleared |-> \A u \in Uids : scoring_results'[u] = <<>>,
                       rolled |-> \A u \in Uids :
                                     scoring_results[u] # <<>> =>
                                        historical_scores'[u] = RolledScore(u),
                       looped |-> FALSE, chain |-> 0,
                       weighed_unfit |-> lastSet.weighed_unfit,
                       late |-> lastSet.late]
        /\ wpc' = "wait"
        /\ wIdx' = 0
        /\ miner_indices' = <<>>
        /\ weights' = <<>>
        /\ UNCHANGED blacklist
        /\ UNCHANGED nonWeightVars

-----------------------------------------------------------------------------
(* Validator state and metagraph resync: BaseValidator.resync_metagraph and *)
(* SoulxValidator.restore_state_and_evaluate.  The score arrays only get    *)
(* values other than 0 from a saved state; a saved state holds arrays of    *)
(* one length, as save_state writes them.  The chain replaces hotkeys and   *)
(* registers new uids, it never removes a uid.                              *)

Hotkeys == 1..NumHotkeys
\* a sample of the scores a saved state can hold
ScoreValues == {0, 500}

HotkeyLists ==
    {s \in UNION {[1..n -> Hotkeys] : n \in 1..NumUids} :
        \A i, j \in DOMAIN s : i # j => s[i] # s[j]}

\* the hotkeys are interchangeable: the list a run starts from, of the chain
\* or of a saved state, is taken with its hotkeys in the order of their
\* numbers; the lists the chain offers later are arbitrary
FirstHotkeyLists == {s \in HotkeyLists : \A i \in DOMAIN s : s[i] = i}

ScoreLists(n) == [1..n -> ScoreValues]

ResyncedNoReset(prev, sc, mv, new) ==
    [hotkeys |-> new,
     scores |-> [i \in 1..Len(new) |-> IF i <= Len(sc) THEN sc[i] ELSE 0],
     moving_avg_scores |-> [i \in 1..Len(new) |-> IF i <= Len(mv) THEN mv[i] ELSE 0]]

ResyncedNoGrow(prev, sc, mv, new) ==
    LET replaced(i) == i <= Len(prev) /\ i <= Len(new) /\ prev[i] # new[i]
    IN  [hotkeys |-> new,
         scores |-> [i \in DOMAIN sc |-> IF replaced(i) THEN 0 ELSE sc[i]],
         moving_avg_scores |->
             [i \in DOMAIN mv |-> IF replaced(i) THEN 0 ELSE mv[i]]]

\* resync_metagraph: prev is self.hotkeys, sc and mv are the score arrays,
\* new is the hotkey list of the synced metagraph
Resynced(prev, sc, mv, new) ==
    IF prev = new
    THEN [hotkeys |-> prev, scores |-> sc, moving_avg_scores |-> mv]
    ELSE LET replaced(i) == i <= Len(prev) /\ i <= Len(new) /\ prev[i] # new[i]
             sc1 == [i \in DOMAIN sc |-> IF replaced(i) THEN 0 ELSE sc[i]]
             mv1 == [i \in DOMAIN mv |-> IF replaced(i) THEN 0 ELSE mv[i]]
             copied == Min(Len(prev), Len(sc1))
             grown == Len(prev) < Len(new)
         IN  [hotkeys |-> new,
              scores |-> IF grown
                         THEN [i \in 1..Len(new) |-> IF i <= copied THEN sc1[i] ELSE 0]
                         ELSE sc1,
              moving_avg_scores |->
                         IF grown
                         THEN [i \in 1..Len(new) |-> IF i <= copied THEN mv1[i] ELSE 0]
                         ELSE mv1]

NoResync == [ran |-> FALSE, hotkeys |-> <<>>, scores |-> <<>>,
             moving_avg_scores |-> <<>>, metagraph |-> <<>>,
             restoring |-> FALSE]

\* metagraph.block_at_registration: every hotkey has its registration block
BlockAtRegistration(hks) == [i \in 1..Len(hks) |-> hks[i]]

\* total_blocks_run of a saved state: save_state runs after the main loop
\* has counted an evaluation interval
SavedTotalBlocksRun == 1

\* what self.client.get returns for the state key
SavedStates == {"absent", "pickled", "garbled"}

NoRestore == [ran |-> FALSE, exists |-> FALSE, blocks_down |-> 0,
              hotkeys |-> <<>>, total_blocks_run |-> 0]

\* blocks_down >= self.tempo * 1.5
Stale(blocks_down) == 2 * blocks_down >= 3 * Tempo

\* run in restore mode: restore_state_and_evaluate up to its resync.
\* exists: load_latest_state returns a state (with its current_block),
\* blocks_down: how far the chain is past it, saved, sc, mv: its arrays.
\* Without a state, or with a stale one, the arrays of the constructor stay.
RestoreState(exists, blocks_down, saved, sc, mv) ==
    /\ rpc = "start"
    /\ saved_state # "garbled"
    /\ exists => saved_state = "pickled"
    /\ Len(sc) = Len(saved) /\ Len(mv) = Len(saved)
    /\ lastRestore' = [ran |-> TRUE, exists |-> exists,
                       blocks_down |-> blocks_down, hotkeys |-> hotkeys,
                       total_blocks_run |->
                           IF exists THEN SavedTotalBlocksRun ELSE 0]
    /\ IF exists /\ ~Stale(blocks_down)
       THEN /\ rpc' = "loaded"
            /\ hotkeys' = saved
            /\ scores' = sc
            /\ moving_avg_scores' = mv
            /\ block_at_registration' = BlockAtRegistration(saved)
       ELSE /\ rpc' = "running"
            /\ UNCHANGED <<hotkeys, scores, moving_avg_scores,
                           block_at_registration>>
    /\ UNCHANGED <<lastResync, saved_state>>
    /\ UNCHANGED nonResyncVars

\* run in restore mode on a blob that pickle.loads rejects: loads raises
\* Exception("Failed to unpickle object"), and neither load_data,
\* load_latest_state, restore_state_and_evaluate, run nor the caller of run
\* has a handler, so the process ends with the traceback; nothing deletes or
\* rewrites the key.
RestoreStateRaises ==
    /\ rpc = "start"
    /\ saved_state = "garbled"
    /\ rpc' = "raised"
    /\ UNCHANGED <<hotkeys, scores, moving_avg_scores, block_at_registration,
                   lastResync, lastRestore, saved_state>>
    /\ UNCHANGED nonResyncVars

\* resync_metagraph, called by restore_state_and_evaluate after it has
\* loaded the arrays, by run otherwise, and by the main loop; new: the
\* hotkeys of the synced metagraph
ResyncMetagraph(new) ==
    /\ rpc \in {"loaded", "running"}
    /\ Len(new) >= Len(hotkeys)
    /\ LET r == Resynced(hotkeys, scores, moving_avg_scores, new)
       IN  /\ hotkeys' = r.hotkeys
           /\ scores' = r.scores
           /\ moving_avg_scores' = r.moving_avg_scores
    /\ block_at_registration' = IF hotkeys = new THEN block_at_registration
                                ELSE BlockAtRegistration(new)
    /\ lastResync' = [ran |-> TRUE, hotkeys |-> hotkeys, scores |-> scores,
                      moving_avg_scores |-> moving_avg_scores,
                      metagraph |-> new, restoring |-> rpc = "loaded"]
    /\ lastRestore' = NoRestore
    /\ rpc' = "running"
    /\ UNCHANGED saved_state
    /\ UNCHANGED nonResyncVars

-----------------------------------------------------------------------------
(* Scorer: LocalScoringSystem.score_result and adjust_contender_from_result.*)
(* Scores are integers in thousandths, times in seconds.  A job is a query  *)
(* result with what it is scored against:                                   *)
(*   status, success, task, rt (response_time, 0: none), volume (the work   *)
(*   that calculate_work computes), sm (stream metric), content (of the     *)
(*   first choice of the formatted response), cfg (a task config exists),   *)
(*   sus (sus mode, and how the claimed metrics compare), fault (what       *)
(*   raises), reward_client (the config has one).                           *)

StatusCodes == {200, 400, 429, 500}
TaskKinds == {"chat-", "text-to-image", "image-to-image", "avatar", "other"}
ResponseTimes == {0, 5, 20, 40}
Volumes == {0, 600, 3000}
StreamMetrics == {0, 60}
Contents == {"none", "long", "greeting"}
\* sus_task is off; or on without claimed speed data, with observed
\* metrics that match the claimed ones, with a metric that is off the
\* claimed one by more than half, or with only the stream metric off
SusModes == {"off", "unclaimed", "match", "mismatch", "stream_mismatch"}
Faults == {"none", "work", "payload"}
SUS_SCORE == 0 - 10000

Jobs == [status : StatusCodes, success : BOOLEAN, task : TaskKinds,
         rt : ResponseTimes, volume : Volumes, sm : StreamMetrics,
         content : Contents, cfg : BOOLEAN, sus : SusModes, fault : Faults,
         reward_client : BOOLEAN]

Metric(j) == IF j.rt # 0 THEN j.volume \div j.rt ELSE 0

ScoreChatTask(j) ==
    LET s1 == 500 + (IF j.content \in {"long", "greeting"} THEN 200 ELSE 0)
                  + (IF j.content = "greeting" THEN 100 ELSE 0)
        s2 == s1 + (IF Metric(j) > 100 THEN 200
                    ELSE IF Metric(j) > 50 THEN 100 ELSE 0)
        s3 == s2 + (IF j.sm > 50 THEN 100 ELSE 0)
    IN  Min(1000, s3)

\* the scores of the image, avatar and generic tasks differ in their limits
ScoreTimedTask(j, fast, slow, high, low) ==
    LET s1 == 500 + (IF j.rt # 0 /\ j.rt < fast THEN 200
                     ELSE IF j.rt # 0 /\ j.rt < slow THEN 100 ELSE 0)
        s2 == s1 + (IF Metric(j) > high THEN 200
                    ELSE IF Metric(j) > low THEN 100 ELSE 0)
    IN  Min(1000, s2)

ScoreImageTask(j) == ScoreTimedTask(j, 10, 20, 50, 20)
ScoreAvatarTask(j) == ScoreTimedTask(j, 30, 60, 30, 10)
ScoreGenericTask(j) == ScoreTimedTask(j, 15, 30, 100, 50)

TaskScore(j) ==
    CASE j.task = "chat-" -> ScoreChatTask(j)
      [] j.task \in {"text-to-image", "image-to-image"} -> ScoreImageTask(j)
      [] j.task = "avatar" -> ScoreAvatarTask(j)
      [] OTHER -> ScoreGenericTask(j)

CalculateBaseScoreAnyStatus(j) ==
    IF j.rt > 30 THEN 100 ELSE TaskScore(j)

CalculateBaseScore(j) ==
    IF ~j.success \/ j.status # 200 THEN 0
    ELSE IF j.rt > 30 THEN 100
    ELSE TaskScore(j)

StatusFactor(status) ==
    CASE status = 200 -> 1000
      [] status = 400 -> 300
      [] status = 429 -> 200
      [] status = 500 -> 100
      [] OTHER -> 500

ApplyQualityAdjustments(base, j) ==
    LET a1 == (base * StatusFactor(j.status)) \div 1000
        a2 == IF Metric(j) > 0
              THEN (a1 * (800 + 2 * Min(Metric(j), 100))) \div 1000 ELSE a1
        a3 == IF j.sm > 0
              THEN (a2 * (900 + 2 * Min(j.sm, 50))) \div 1000 ELSE a2
    IN  a3

ScoreResult(j) ==
    IF ~j.cfg \/ j.fault # "none" THEN 0
    ELSE Max(0, Min(1000, ApplyQualityAdjustments(CalculateBaseScore(j), j)))

\* the reward records of the sus block: one with the sentinel when the
\* observed metric is off the claimed one by more than half
SusRewards(j) ==
    IF j.sus = "mismatch" /\ j.fault = "none" /\ j.reward_client
    THEN <<SUS_SCORE>> ELSE <<>>

\* adjust_contender_from_result: produced tells whether a score is returned
\* (none without a task config, none when an exception escapes), ret is the
\* returned score, scoring the quality scores of the ScoringResults added
\* and rewards those of the reward records sent.
AdjustContenderFromResult(j) ==
    IF ~j.cfg
    THEN [produced |-> FALSE, raised |-> FALSE, ret |-> 0, scoring |-> <<>>,
          rewards |-> <<>>]
    ELSE IF j.fault = "payload"
    THEN [produced |-> FALSE, raised |-> TRUE, ret |-> 0, scoring |-> <<>>,
          rewards |-> <<>>]
    ELSE IF j.status = 200 /\ j.success
    THEN IF j.fault = "work"
         THEN [produced |-> FALSE, raised |-> TRUE, ret |-> 0,
               scoring |-> <<>>, rewards |-> SusRewards(j)]
         ELSE [produced |-> TRUE, raised |-> FALSE, ret |-> ScoreResult(j),
               scoring |-> <<ScoreResult(j)>>,
               rewards |-> SusRewards(j) \o
                           (IF j.reward_client THEN <<ScoreResult(j)>> ELSE <<>>)]
    ELSE [produced |-> TRUE, raised |-> FALSE, ret |-> 0, scoring |-> <<>>,
          rewards |-> SusRewards(j)]

NoOutcome == [done |-> FALSE, produced |-> FALSE, raised |-> FALSE, ret |-> 0,
              scoring |-> <<>>, rewards |-> <<>>]

NoJob == [status |-> 200, success |-> FALSE, task |-> "other", rt |-> 0,
          volume |-> 0, sm |-> 0, content |-> "none", cfg |-> FALSE,
          sus |-> "off", fault |-> "none", reward_client |-> FALSE]

\* the query layer hands the result of uid 0 to adjust_contender_from_result
ScoreJob ==
    LET o == AdjustContenderFromResult(job)
    IN  /\ ~outcome.done
        /\ outcome' = [done |-> TRUE, produced |-> o.produced,
                       raised |-> o.raised, ret |-> o.ret,
                       scoring |-> o.scoring, rewards |-> o.rewards]
        /\ scoring_results' = [scoring_results EXCEPT ![0] = @ \o o.scoring]
        /\ UNCHANGED <<job, historical_scores, blacklist,
                       blocks_since_last_weights, wpc, wIdx, miner_indices,
                       weights, lastSet>>
        /\ UNCHANGED <<queueVars, leaseVars, resyncVars, handshakeVars, stopVars,
                       syncVars, streamVars>>

-----------------------------------------------------------------------------
(* Handshake map: SoulxValidator._start_handshake_timer,                    *)
(* _perform_handshakes_with_nodes, _handshake_node and _cache_nodes_info.   *)
(* Time is counted in handshake intervals: age is the number of intervals   *)
(* the timer has slept since the entry's last_handshake_time.  An entry of  *)
(* the map is the node_info dict of the round that stored it; shared tells  *)
(* that this dict is still the one in cached_nodes_info, so that a failed   *)
(* handshake, which marks the cached dict, marks the entry as well.         *)

\* failed is history: the last round tried the miner's handshake and failed
NoSession == [present |-> FALSE, ok |-> FALSE, age |-> 0, shared |-> FALSE,
              failed |-> FALSE]

\* _cache_nodes_info: the main loop builds fresh node_info dicts for the
\* miners that serve an address
RefreshCachedNodes(nodes) ==
    /\ cached_nodes_info' = nodes
    /\ node_handshake_data' =
           [h \in Miners |-> [node_handshake_data[h] EXCEPT !.shared = FALSE]]
    /\ UNCHANGED hpc
    /\ UNCHANGED nonHandshakeVars

\* the timer thread sleeps for handshake_interval and tests its flag
TimerSleep ==
    /\ hpc = "sleep"
    /\ hpc' = IF handshake_running THEN "round" ELSE "exit"
    /\ node_handshake_data' =
           [h \in Miners |->
               [node_handshake_data[h] EXCEPT !.age = Min(@ + 1, MaxAge)]]
    /\ UNCHANGED cached_nodes_info
    /\ UNCHANGED nonHandshakeVars

\* the entry of a miner after a round: old is its entry before, cached tells
\* whether the miner is in cached_nodes_info, succeeded whether its
\* handshake went through
Stored(old, cached, succeeded) ==
    IF ~cached THEN [old EXCEPT !.failed = FALSE]
    ELSE IF succeeded
    THEN [present |-> TRUE, ok |-> TRUE, age |-> 0, shared |-> TRUE,
          failed |-> FALSE]
    ELSE IF old.shared THEN [old EXCEPT !.ok = FALSE, !.failed = TRUE]
    ELSE [old EXCEPT !.failed = TRUE]

\* what the dispatcher reads for miner h in the map the round handed to it
SessionRead(h) ==
    IF ~node_handshake_data[h].present THEN "missing"
    ELSE IF node_handshake_data[h].ok THEN "ok" ELSE "not_ok"

\* _perform_handshakes_with_nodes over cached_nodes_info; okset: the miners
\* whose handshake goes through
HandshakeRound(okset) ==
    /\ hpc = "round"
    /\ hpc' = IF handshake_running THEN "sleep" ELSE "exit"
    /\ node_handshake_data' =
           [h \in Miners |->
               Stored(node_handshake_data[h], h \in cached_nodes_info, h \in okset)]
    /\ UNCHANGED cached_nodes_info
    /\ UNCHANGED nonHandshakeVars

-----------------------------------------------------------------------------
(* Shutdown: the finally block of SoulxValidator.run after the main loop    *)
(* has left on a keyboard interrupt.  It stops the task processor, then the *)
(* queue processor, then the handshake timer; each stop clears the flag     *)
(* the thread's loop tests, and the main thread waits at most 5 seconds for *)
(* the thread.                                                              *)

StopTaskProcessor ==
    /\ mpc = "loop"
    /\ tp_running' = FALSE
    /\ mpc' = "stop_queue"
    /\ UNCHANGED <<running, handshake_running>>
    /\ UNCHANGED <<queueVars, leaseVars, weightVars, resyncVars, scoreVars,
                   handshakeVars, syncVars, streamVars>>

StopQueueProcessor ==
    /\ mpc = "stop_queue"
    /\ running' = FALSE
    /\ mpc' = "stop_handshake"
    /\ UNCHANGED <<tp_running, handshake_running>>
    /\ UNCHANGED <<queueVars, leaseVars, weightVars, resyncVars, scoreVars,
                   handshakeVars, syncVars, streamVars>>

StopHandshakeTimer ==
    /\ mpc = "stop_handshake"
    /\ handshake_running' = FALSE
    /\ mpc' = "exited"
    /\ UNCHANGED <<running, tp_running>>
    /\ UNCHANGED <<queueVars, leaseVars, weightVars, resyncVars, scoreVars,
                   handshakeVars, syncVars, streamVars>>

-----------------------------------------------------------------------------
(* Specifications: every subsystem from its start, the others idle *)

QueueStart ==
    /\ QUEUE = <<>>
    /\ SEEN = {}
    /\ ccStatus = [t \in TaskIds |-> "none"]
    /\ prodPc = "qlen"
    /\ prodBatch = {}
    /\ consPc = "qlen"
    /\ consTask = 0
    /\ consBatch = {}
    /\ tasks = <<>>
    /\ lastAdd = NoAdd
    /\ lifeCalls = [t \in TaskIds |-> 0]
    /\ lifePushes = [t \in TaskIds |-> 0]
    /\ pushCount = [t \in TaskIds |-> 0]
    /\ srem_failed = {}
    /\ clr_pc = "idle"

LeaseStart ==
    /\ apiLease = [m \in Miners |-> 0]
    /\ redisLease = [m \in Miners |-> 0]
    /\ miner_tasks = [v \in Validators |-> {}]
    /\ contenders = [v \in Validators |-> <<>>]
    /\ dAttempt = [v \in Validators |-> 0]
    /\ dIdx = [v \in Validators |-> 1]
    /\ dPassOk = [v \in Validators |-> FALSE]
    /\ dQueryOk = [v \in Validators |-> FALSE]
    /\ dSession = [v \in Validators |-> "none"]
    /\ dStatus = [v \in Validators |-> 0]
    /\ contender_stats = [v \in Validators |-> NoStats]
    /\ has_task = [v \in Validators |-> FALSE]
    /\ contender_results = [v \in Validators |-> <<>>]
    /\ engaged = [v \in Validators |-> {}]
    /\ rewarded = [v \in Validators |-> <<>>]
    /\ set_answer = [v \in Validators |-> "none"]
    /\ dRaised = [v \in Validators |-> FALSE]
    /\ dEverOk = [v \in Validators |-> FALSE]
    /\ reports = [v \in Validators |-> <<>>]

WeightsStart ==
    /\ scoring_results = [u \in Uids |-> <<>>]
    /\ historical_scores = [u \in Uids |-> 0]
    /\ blocks_since_last_weights = 0
    /\ wpc = "wait"
    /\ wIdx = 0
    /\ miner_indices = <<>>
    /\ weights = <<>>
    /\ lastSet = NoSet

ResyncStart ==
    /\ rpc = "start"
    /\ scores = [i \in 1..Len(hotkeys) |-> 0]
    /\ moving_avg_scores = [i \in 1..Len(hotkeys) |-> 0]
    /\ block_at_registration = BlockAtRegistration(hotkeys)
    /\ lastResync = NoResync
    /\ lastRestore = NoRestore

HandshakeStart ==
    /\ node_handshake_data = [h \in Miners |-> NoSession]
    /\ hpc = "round"

\* the background threads have started and set their flags
StopStart ==
    /\ running = TRUE
    /\ tp_running = TRUE
    /\ handshake_running = TRUE
    /\ mpc = "loop"

\* ran: an iteration has run, at block at; failed: its set_weights failed;
\* retry: the iteration before it had failed; waited: the blocks that went
\* by since the iteration before; advanced: the blocks it added to the
\* local counters
NoIter == [ran |-> FALSE, failed |-> FALSE, retry |-> FALSE, at |-> 0,
           waited |-> 0, advanced |-> 0]

\* run before its loop: the first target is one evaluation interval after
\* the block of the first resync
SyncStart ==
    /\ chain_block = 0
    /\ current_block = 0
    /\ next_sync_block = current_block + EvalInterval
    /\ last_update_block = 0
    /\ lastIter = NoIter

NoResult == [built |-> FALSE, success |-> FALSE, status_code |-> 0,
             formatted_response |-> <<>>]

\* consume_generator before its loops, for the stream texts
StreamStart(texts) ==
    /\ generator = texts
    /\ loaded_jsons = <<>>
    /\ first_message = TRUE
    /\ text_jsons = <<>>
    /\ out_tokens_counter = 0
    /\ query_result = NoResult
    /\ lacked = FALSE
    /\ finished = FALSE

IdleStream == StreamStart(<<>>) /\ gpc = "off"

IdleQueue == QueueStart
IdleLease == LeaseStart /\ dpc = [v \in Validators |-> "off"]
IdleWeights == WeightsStart /\ blacklist = FALSE
IdleResync == hotkeys = <<>> /\ ResyncStart /\ saved_state = "absent"
IdleScore == job = NoJob /\ outcome = NoOutcome
IdleHandshake == HandshakeStart /\ cached_nodes_info = {}

InitQueue ==
    /\ QueueStart
    /\ IdleLease /\ IdleWeights /\ IdleResync /\ IdleScore /\ IdleHandshake
    /\ StopStart
    /\ SyncStart
    /\ IdleStream

NextQueue ==
    \/ \E t \in TaskIds : CCCreateTask(t)
    \/ \E up \in BOOLEAN : ProducerQlen(up)
    \/ \E up \in BOOLEAN : ProducerFetch(up)
    \/ \E t \in TaskIds, up \in BOOLEAN : ProducerEnqueue(t, up)
    \/ \E up \in BOOLEAN : ConsumerPop(up)
    \/ \E up \in BOOLEAN : ConsumerSrem(up)
    \/ \E up \in BOOLEAN : ConsumerQlen(up)
    \/ \E up \in BOOLEAN : ConsumerFetch(up)
    \/ \E t \in TaskIds, up \in BOOLEAN : ConsumerAdd(t, up)
    \/ \E i \in 1..MAX_CONCURRENT_TASKS, up \in BOOLEAN : DispatchMarkProcessing(i, up)
    \/ \E i \in 1..MAX_CONCURRENT_TASKS, s \in BOOLEAN, up \in BOOLEAN :
          DispatchFinish(i, s, up)

SpecQueue == InitQueue /\ [][NextQueue]_vars

\* the queue with a thread that calls clear_queue
NextClear ==
    \/ NextQueue
    \/ \E up \in BOOLEAN : ClearQueueList(up)
    \/ \E up \in BOOLEAN : ClearQueueSet(up)

SpecClear == InitQueue /\ [][NextClear]_vars

\* the three background loops of the validator until and after a shutdown;
\* no node is cached, so a handshake round has nothing to store
QueueProcessorStep ==
    \/ \E up \in BOOLEAN : ConsumerPop(up)
    \/ \E up \in BOOLEAN : ConsumerSrem(up)
    \/ \E up \in BOOLEAN : ConsumerQlen(up)
    \/ \E up \in BOOLEAN : ConsumerFetch(up)
    \/ \E t \in TaskIds, up \in BOOLEAN : ConsumerAdd(t, up)

TaskProcessorStep ==
    \/ \E up \in BOOLEAN : ProducerQlen(up)
    \/ \E up \in BOOLEAN : ProducerFetch(up)
    \/ \E t \in TaskIds, up \in BOOLEAN : ProducerEnqueue(t, up)

HandshakeTimerStep ==
    \/ TimerSleep
    \/ HandshakeRound({})

InitShutdown ==
    /\ QueueStart
    /\ HandshakeStart
    /\ cached_nodes_info = {}
    /\ IdleLease /\ IdleWeights /\ IdleResync /\ IdleScore
    /\ StopStart
    /\ SyncStart
    /\ IdleStream

NextShutdown ==
    \/ \E t \in TaskIds : CCCreateTask(t)
    \/ QueueProcessorStep
    \/ TaskProcessorStep
    \/ HandshakeTimerStep
    \/ \E i \in 1..MAX_CONCURRENT_TASKS, up \in BOOLEAN : DispatchMarkProcessing(i, up)
    \/ \E i \in 1..MAX_CONCURRENT_TASKS, s \in BOOLEAN, up \in BOOLEAN :
          DispatchFinish(i, s, up)
    \/ StopTaskProcessor
    \/ StopQueueProcessor
    \/ StopHandshakeTimer

SpecShutdown ==
    /\ InitShutdown /\ [][NextShutdown]_vars
    /\ WF_vars(QueueProcessorStep)
    /\ WF_vars(TaskProcessorStep)
    /\ WF_vars(HandshakeTimerStep)

-----------------------------------------------------------------------------
(* Main loop and the chain's clock: SoulxValidator.run and                  *)
(* BaseValidator.get_next_sync_block.  Blocks are counted one by one; the   *)
(* local counter blocks_since_last_weights is counted in evaluation         *)
(* intervals of EvalInterval blocks, as in the weight engine.  The          *)
(* iteration is one step: subtensor.wait_for_block(n) returns True as soon  *)
(* as the chain is at block n or later, and whether the chain accepts the   *)
(* weights is the environment's choice.                                     *)

\* weights_interval in blocks
WeightsIntervalBlocks == WeightsInterval * EvalInterval

\* subtensor.blocks_since_last_update
BlocksSinceLastUpdateAt(block, last) == block - last

\* get_next_sync_block, with self.current_block = cur
get_next_sync_block(cur, blocks_since_last) ==
    LET next_sync == cur + EvalInterval
        blocks_until_weights == WeightsIntervalBlocks - blocks_since_last
        next_weights_block == cur + blocks_until_weights + 1
    IN  IF blocks_since_last >= WeightsIntervalBlocks THEN cur + 1
        ELSE IF next_weights_block <= next_sync THEN next_weights_block
        ELSE next_sync

\* a block is produced
ChainTick ==
    /\ chain_block < MaxChain
    /\ chain_block' = chain_block + 1
    /\ UNCHANGED <<current_block, next_sync_block, last_update_block,
                   lastIter>>
    /\ UNCHANGED <<queueVars, leaseVars, weightVars, resyncVars, scoreVars,
                   handshakeVars, stopVars, streamVars>>

IterOutcomes == {"accept", "reject", "raise"}

\* one iteration of the main loop; result: the chain accepts or rejects
\* the weights if set_weights is called, or resync_metagraph raises
SyncIteration(result) ==
    /\ mpc = "loop"
    /\ chain_block >= next_sync_block
    /\ IF result = "raise"
       THEN /\ lastIter' = [ran |-> TRUE, failed |-> FALSE,
                            retry |-> lastIter.failed, at |-> chain_block,
                            waited |-> chain_block - lastIter.at,
                            advanced |-> 0]
            /\ UNCHANGED <<current_block, next_sync_block, last_update_block,
                           blocks_since_last_weights>>
       ELSE \E local \in {Min(blocks_since_last_weights + 1, MaxBlocks)} :
            \E due \in {WeightsDue(
                            BlocksSinceLastUpdateAt(chain_block,
                                last_update_block) \div EvalInterval,
                            local)} :
            \E success \in {due /\ result = "accept"} :
               /\ current_block' = chain_block
               /\ blocks_since_last_weights' =
                     IF due THEN BlocksAfterSetWeights(success, local)
                     ELSE local
               /\ last_update_block' =
                     IF success THEN chain_block ELSE last_update_block
               /\ next_sync_block' =
                     IF due /\ ~success THEN next_sync_block
                     ELSE get_next_sync_block(current_block',
                              BlocksSinceLastUpdateAt(chain_block,
                                  last_update_block'))
               /\ lastIter' = [ran |-> TRUE, failed |-> due /\ ~success,
                               retry |-> lastIter.failed,
                               at |-> chain_block,
                               waited |-> chain_block - lastIter.at,
                               advanced |-> EvalInterval]
    /\ UNCHANGED <<chain_block, scoring_results, historical_scores, blacklist,
                   wpc, wIdx, miner_indices, weights, lastSet>>
    /\ UNCHANGED <<queueVars, leaseVars, resyncVars, scoreVars, handshakeVars,
                   stopVars, streamVars>>

InitSync ==
    /\ IdleQueue /\ IdleLease /\ IdleWeights /\ IdleResync /\ IdleScore
    /\ IdleHandshake
    /\ StopStart
    /\ SyncStart
    /\ IdleStream

NextSync ==
    \/ ChainTick
    \/ \E result \in IterOutcomes : SyncIteration(result)

SpecSync == InitSync /\ [][NextSync]_vars

-----------------------------------------------------------------------------
(* Stream consumer: consume_generator of query/streaming.py.  The stream is *)
(* a sequence of texts, a text a sequence of "data: " events.  An event is  *)
(* "content" (a JSON dict with the content field of its task), "finish"     *)
(* (the same with a finish_reason key), "no_content" (a dict without the    *)
(* content field), "not_dict" (JSON that is no dict), "garbled" (no JSON)   *)
(* or "done" (the [DONE] mark).  A step is one turn of the outer or of the  *)
(* inner loop; the QueryResult is built by the step that leaves the outer   *)
(* loop.                                                                    *)

ChunkKinds == {"content", "finish", "no_content", "not_dict"}

EventKinds == ChunkKinds \cup {"garbled", "done"}

Texts == UNION {[1..n -> EventKinds] : n \in 0..MaxChunks}

Streams == UNION {[1..n -> Texts] : n \in 0..MaxTexts}

\* load_sse_jsons: the events of a text that parse as JSON, [DONE] left out
load_sse_jsons(text) == SelectSeq(text, LAMBDA e : e \in ChunkKinds)

\* the try block of the inner loop: the chunk has the content field
HasContent(chunk) == chunk \in {"content", "finish"}

\* the code after the loops: the QueryResult of the stream
BuildResult(first, jsons) ==
    /\ query_result' = [built |-> TRUE, success |-> ~first, status_code |-> 200,
                        formatted_response |-> jsons]
    /\ gpc' = "done"

\* one turn of the async for: the next text is loaded, or the stream is
\* at its end
StreamText ==
    /\ gpc = "outer"
    /\ IF generator = <<>>
       THEN /\ BuildResult(first_message, text_jsons)
            /\ UNCHANGED <<generator, loaded_jsons>>
       ELSE /\ generator' = Tail(generator)
            /\ loaded_jsons' = load_sse_jsons(Head(generator))
            /\ gpc' = IF loaded_jsons' = <<>> THEN "outer" ELSE "inner"
            /\ UNCHANGED query_result
    /\ UNCHANGED <<first_message, text_jsons, out_tokens_counter, lacked,
                   finished>>
    /\ UNCHANGED <<queueVars, leaseVars, weightVars, resyncVars, scoreVars,
                   handshakeVars, stopVars, syncVars>>

\* one turn of the for over the chunks of the current text
StreamChunk ==
    /\ gpc = "inner"
    /\ \E chunk \in {Head(loaded_jsons)} :
          IF ~HasContent(chunk)
          THEN /\ first_message' = TRUE
               /\ lacked' = TRUE
               /\ loaded_jsons' = <<>>
               /\ UNCHANGED <<text_jsons, out_tokens_counter, finished>>
          ELSE /\ out_tokens_counter' = out_tokens_counter + 1
               /\ text_jsons' = Append(text_jsons, chunk)
               /\ first_message' = FALSE
               /\ finished' = (finished \/ chunk = "finish")
               /\ loaded_jsons' = IF chunk = "finish" THEN <<>>
                                  ELSE Tail(loaded_jsons)
               /\ UNCHANGED lacked
    /\ gpc' = IF loaded_jsons' = <<>> THEN "outer" ELSE "inner"
    /\ UNCHANGED <<generator, query_result>>
    /\ UNCHANGED <<queueVars, leaseVars, weightVars, resyncVars, scoreVars,
                   handshakeVars, stopVars, syncVars>>

InitStream ==
    /\ IdleQueue /\ IdleLease /\ IdleWeights /\ IdleResync /\ IdleScore
    /\ IdleHandshake
    /\ StopStart
    /\ SyncStart
    /\ \E texts \in Streams : StreamStart(texts)
    /\ gpc = "outer"

NextStream ==
    \/ StreamText
    \/ StreamChunk

SpecStream == InitStream /\ [][NextStream]_vars

\* one validator dispatches one task
InitDispatch ==
    /\ LeaseStart
    /\ dpc = [v \in Validators |-> IF v = 1 THEN "idle" ELSE "off"]
    /\ IdleQueue /\ IdleWeights /\ IdleResync /\ IdleScore /\ IdleHandshake
    /\ StopStart
    /\ SyncStart
    /\ IdleStream

NextDispatch ==
    \/ \E v \in Validators : StartDispatch(v)
    \/ \E v \in Validators, cs \in ContenderLists, exc \in BOOLEAN :
          SelectContenders(v, cs, exc)
    \/ \E v \in Validators : Backoff(v)
    \/ \E v \in Validators, api \in ApiEnv, rUp \in BOOLEAN :
          CheckBusy(v, api, rUp)
    \/ \E v \in Validators, api \in ApiEnv, rUp \in BOOLEAN :
          AllocateCheck(v, api, rUp)
    \/ \E v \in Validators, api \in ApiEnv, rUp \in BOOLEAN :
          AllocateSet(v, api, rUp)
    \/ \E v \in Validators, o \in QueryOutcomes, sess \in SessionStates :
          ProcessQuery(v, o, sess)
    \/ \E v \in Validators, api \in ApiEnv, ans \in BOOLEAN, rUp \in BOOLEAN :
          ReleaseLease(v, api, ans, rUp)

SpecDispatch == InitDispatch /\ [][NextDispatch]_vars

\* one validator dispatches one task and every remote call and every sleep
\* of the dispatch returns; the miners are interchangeable, so the config
\* service offers them in the order of their numbers
NextRetry ==
    \/ \E v \in Validators : StartDispatch(v)
    \/ \E v \in Validators, cs \in OrderedLists, exc \in BOOLEAN :
          SelectContenders(v, cs, exc)
    \/ \E v \in Validators : Backoff(v)
    \/ \E v \in Validators, api \in ApiEnv, rUp \in BOOLEAN :
          CheckBusy(v, api, rUp)
    \/ \E v \in Validators, api \in ApiEnv, rUp \in BOOLEAN :
          AllocateCheck(v, api, rUp)
    \/ \E v \in Validators, api \in ApiEnv, rUp \in BOOLEAN :
          AllocateSet(v, api, rUp)
    \/ \E v \in Validators, o \in RetryOutcomes, sess \in {"ok"} :
          ProcessQuery(v, o, sess)
    \/ \E v \in Validators, api \in ApiEnv, ans \in BOOLEAN, rUp \in BOOLEAN :
          ReleaseLease(v, api, ans, rUp)

SpecRetry == InitDispatch /\ [][NextRetry]_vars /\ WF_vars(NextRetry)

\* every validator dispatches a task for the same miner; the validators
\* share the lease API and the Redis instance
InitLease ==
    /\ LeaseStart
    /\ dpc = [v \in Validators |-> "idle"]
    /\ IdleQueue /\ IdleWeights /\ IdleResync /\ IdleScore /\ IdleHandshake
    /\ StopStart
    /\ SyncStart
    /\ IdleStream

NextLease ==
    \/ \E v \in Validators : StartDispatch(v)
    \/ \E v \in Validators, cs \in ContendedLists, exc \in BOOLEAN :
          SelectContenders(v, cs, exc)
    \/ \E v \in Validators : Backoff(v)
    \/ \E v \in Validators, api \in ApiEnv, rUp \in BOOLEAN :
          CheckBusy(v, api, rUp)
    \/ \E v \in Validators, api \in ApiEnv, rUp \in BOOLEAN :
          AllocateCheck(v, api, rUp)
    \/ \E v \in Validators, api \in ApiEnv, rUp \in BOOLEAN :
          AllocateSet(v, api, rUp)
    \/ \E v \in Validators, o \in QueryOutcomes, sess \in SessionStates :
          ProcessQuery(v, o, sess)
    \/ \E v \in Validators, api \in ApiEnv, ans \in BOOLEAN, rUp \in BOOLEAN :
          ReleaseLease(v, api, ans, rUp)

SpecLease == InitLease /\ [][NextLease]_vars

InitWeights ==
    /\ WeightsStart
    /\ blacklist \in BOOLEAN
    /\ IdleQueue /\ IdleLease /\ IdleResync /\ IdleScore /\ IdleHandshake
    /\ StopStart
    /\ SyncStart
    /\ IdleStream

NextWeights ==
    \/ \E u \in Uids, q \in QualityScores : AddScoringResult(u, q)
    \/ \E b \in BOOLEAN : SetBlacklist(b)
    \/ \E blocks_since_last \in BlocksSinceLastUpdate :
          MainLoop(blocks_since_last)
    \/ \E kind \in MinerKinds, draw \in RandomScores : WeighUid(kind, draw)
    \/ \E env \in ChainEnv, owner \in Uids \cup {NoOwner}, wl \in BOOLEAN,
          coeff \in PenaltyCoefficients : SubmitWeights(env, owner, wl, coeff)

SpecWeights == InitWeights /\ [][NextWeights]_vars

\* the weight engine on a metagraph that holds validators as well
NextNeurons ==
    \/ \E u \in Uids, q \in QualityScores : AddScoringResult(u, q)
    \/ \E b \in BOOLEAN : SetBlacklist(b)
    \/ \E blocks_since_last \in BlocksSinceLastUpdate :
          MainLoop(blocks_since_last)
    \/ \E kind \in NeuronKinds, draw \in RandomScores : WeighUid(kind, draw)
    \/ \E env \in ChainEnv, owner \in Uids \cup {NoOwner}, wl \in BOOLEAN,
          coeff \in PenaltyCoefficients : SubmitWeights(env, owner, wl, coeff)

SpecNeurons == InitWeights /\ [][NextNeurons]_vars

\* the validator after its constructor, on a metagraph of any size
InitResync ==
    /\ hotkeys \in FirstHotkeyLists
    /\ ResyncStart
    /\ saved_state \in SavedStates
    /\ IdleQueue /\ IdleLease /\ IdleWeights /\ IdleScore /\ IdleHandshake
    /\ StopStart
    /\ SyncStart
    /\ IdleStream

NextResync ==
    \/ /\ rpc = "start"
       /\ \E exists \in BOOLEAN, blocks_down \in 0..MaxDown,
             saved \in FirstHotkeyLists :
             \E sc \in ScoreLists(Len(saved)), mv \in ScoreLists(Len(saved)) :
                RestoreState(exists, blocks_down, saved, sc, mv)
    \/ RestoreStateRaises
    \/ \E new \in HotkeyLists : ResyncMetagraph(new)

SpecResync == InitResync /\ [][NextResync]_vars

\* any query result is handed to the scorer
InitScore ==
    /\ job \in Jobs
    /\ outcome = NoOutcome
    /\ IdleQueue /\ IdleLease /\ IdleWeights /\ IdleResync /\ IdleHandshake
    /\ StopStart
    /\ SyncStart
    /\ IdleStream

NextScore == ScoreJob

SpecScore == InitScore /\ [][NextScore]_vars

\* the timer thread starts with its first round, on any cached node list
InitHandshake ==
    /\ HandshakeStart
    /\ cached_nodes_info \in SUBSET Miners
    /\ IdleQueue /\ IdleLease /\ IdleWeights /\ IdleResync /\ IdleScore
    /\ StopStart
    /\ SyncStart
    /\ IdleStream

NextHandshake ==
    \/ \E nodes \in SUBSET Miners : RefreshCachedNodes(nodes)
    \/ TimerSleep
    \/ \E okset \in SUBSET Miners : HandshakeRound(okset)

SpecHandshake == InitHandshake /\ [][NextHandshake]_vars

-----------------------------------------------------------------------------
(* C1: within one lifetime of a task id in the deduplication set (from the  *)
(* SADD that admits it to the SREM of its dequeue), exactly one of the      *)
(* add_task_to_queue calls that reach Redis returns true and performs the   *)
(* RPUSH, whichever thread issues it; every call that returns false leaves  *)
(* the queue length unchanged, and a true return lengthens it by one.       *)
C1_EnqueueOncePerLifetime ==
    /\ \A t \in TaskIds : lifeCalls[t] >= 1 => lifePushes[t] = 1
    /\ lastAdd.called =>
          /\ lastAdd.ret => lastAdd.grew = 1
          /\ ~lastAdd.ret => lastAdd.grew = 0
          /\ lastAdd.ret <=> (lastAdd.ran /\ ~lastAdd.wasSeen)

\* add_task_to_queue has run twice for the same id in one lifetime, and the
\* later call was refused as a duplicate.
C1_Witness ==
    /\ \E t \in TaskIds : lifeCalls[t] >= 2 /\ lifePushes[t] = 1
    /\ lastAdd.ran /\ ~lastAdd.ret /\ lastAdd.wasSeen

\* validator v is inside a dispatch to miner m for which its
\* allocate_task_to_contender has succeeded and whose release has not run
Dispatching(v, m) ==
    /\ dpc[v] \in {"process", "release"}
    /\ CurMiner(v) = m

\* some lease store holds an entry of validator v for miner m
LeaseStored(v, m) ==
    \/ apiLease[m] = v
    \/ redisLease[m] = v
    \/ m \in miner_tasks[v]

(* C2: at most one lease is held per miner at any instant: no two          *)
(* dispatches, of one validator or of two validators sharing the lease      *)
(* stores, are between a successful allocate_task_to_contender for the      *)
(* miner and the matching release at the same time.                         *)
C2_AtMostOneLeasePerMiner ==
    \A m \in Miners : Cardinality({v \in Validators : Dispatching(v, m)}) <= 1

(* C3: every lease acquired for a contender is removed before the          *)
(* dispatcher moves on from that contender: a lease store holds an entry    *)
(* of a validator for a miner only while that validator is inside its       *)
(* dispatch to that miner.                                                  *)
C3_LeaseRemovedBeforeMovingOn ==
    \A v \in Validators, m \in Miners : LeaseStored(v, m) => Dispatching(v, m)

(* C4: a task handed to process_queue_task gets "processing" first and     *)
(* then exactly one terminal status, reported when the dispatch ends:       *)
(* "completed" if and only if some contender processed the task, "failed"   *)
(* otherwise, also when there are no contenders or the selection raises.    *)
C4_ExactlyOneTerminalStatus ==
    \A v \in Validators :
        /\ Len(reports[v]) <= 2
        /\ Len(reports[v]) >= 1 => reports[v][1] = "processing"
        /\ Len(reports[v]) = 2 <=> dpc[v] = "done"
        /\ Len(reports[v]) = 2 =>
              /\ reports[v][2] \in {"completed", "failed"}
              /\ reports[v][2] = "completed" <=> dEverOk[v]

\* a dispatch has ended as completed
C4_Witness ==
    \E v \in Validators :
        /\ dpc[v] = "done"
        /\ reports[v] = <<"processing", "completed">>
        /\ dEverOk[v]

(* C5: whenever set_weights hands a vector to the chain and reports        *)
(* success, the submitted weights sum to 1, unless all computed weights are *)
(* zero: then exactly the subnet owner's uid carries owner_default_score    *)
(* and every other uid carries 0.                                           *)
C5_SubmittedWeightsSumToOne ==
    (lastSet.submitted /\ lastSet.ret) =>
        IF ~lastSet.zero
        THEN SeqSum(lastSet.weights) = lastSet.den
        ELSE /\ \E i \in DOMAIN lastSet.uids : lastSet.uids[i] = lastSet.owner
             /\ \A i \in DOMAIN lastSet.weights :
                   lastSet.weights[i] * 1000 =
                       IF lastSet.uids[i] = lastSet.owner
                       THEN OWNER_DEFAULT_SCORE * lastSet.den ELSE 0

(* C6: when the validator is on the blacklist while set_weights runs,      *)
(* set_weights returns failure, subtensor.set_weights is not called, and    *)
(* the scoring results, the historical scores and                           *)
(* blocks_since_last_weights are what they were before.                     *)
C6_BlacklistedNoSubmission ==
    (lastSet.ran /\ lastSet.blacklisted) =>
        /\ ~lastSet.ret
        /\ ~lastSet.submitted
        /\ lastSet.kept

\* set_weights has run for a blacklisted validator that had scoring results
\* and whose weights were due
C6_Witness ==
    /\ lastSet.ran /\ lastSet.blacklisted /\ lastSet.scored
    /\ ~lastSet.ret
    /\ blocks_since_last_weights >= WeightsInterval
    /\ \E u \in Uids : scoring_results[u] # <<>>

(* C7: after a resync_metagraph in which the hotkey at uid i differs from  *)
(* the hotkey recorded at uid i before, scores[i] and moving_avg_scores[i]  *)
(* are 0; the entries of the uids whose hotkey did not change keep their    *)
(* values.  (Sequences count from 1: position i holds uid i - 1.)           *)
C7_ReplacedHotkeysAreReset ==
    lastResync.ran =>
        \A i \in 1..Len(lastResync.hotkeys) :
            IF lastResync.hotkeys[i] # hotkeys[i]
            THEN scores[i] = 0 /\ moving_avg_scores[i] = 0
            ELSE /\ scores[i] = lastResync.scores[i]
                 /\ moving_avg_scores[i] = lastResync.moving_avg_scores[i]

\* a resync has replaced the hotkey of a uid that had scores and has left
\* alone a uid that had scores
C7_Witness ==
    /\ lastResync.ran
    /\ \E i, j \in 1..Len(lastResync.hotkeys) :
          /\ lastResync.hotkeys[i] # hotkeys[i]
          /\ lastResync.scores[i] # 0 /\ lastResync.moving_avg_scores[i] # 0
          /\ lastResync.hotkeys[j] = hotkeys[j]
          /\ lastResync.scores[j] # 0 /\ scores[j] # 0

(* C8: for a query result with status code 400 or 429 the scorer's output  *)
(* is exactly 0: score_result gives 0, the score that                       *)
(* adjust_contender_from_result returns is 0 whenever it returns one, and   *)
(* no scoring result is recorded, whatever the payload, the timings, the    *)
(* task type and the success flag.                                          *)
C8_ClientErrorsScoreZero ==
    job.status \in {400, 429} =>
        /\ ScoreResult(job) = 0
        /\ outcome.done =>
              /\ outcome.produced => outcome.ret = 0
              /\ outcome.scoring = <<>>

\* a 429 result that a 200 would have scored high has been scored
C8_Witness ==
    /\ outcome.done /\ outcome.produced /\ outcome.ret = 0
    /\ job.status = 429 /\ job.success /\ job.cfg
    /\ job.task = "chat-" /\ job.content = "greeting"
    /\ Metric(job) > 100 /\ job.sm > 50

(* C9: with handshake interval T, every session in the handshake map was   *)
(* last refreshed at most 2T ago: the entry of a miner whose handshakes     *)
(* keep failing does not stay in the map beyond that.                       *)
C9_SessionsAreFresh ==
    \A h \in Miners :
        node_handshake_data[h].present => node_handshake_data[h].age <= 2

(* C10: a task is never enqueued twice: every task id is pushed onto the    *)
(* queue at most once over the whole run.                                   *)
C10_NeverEnqueuedTwice == \A t \in TaskIds : pushCount[t] <= 1

\* validator v takes a step of the busy check of its contender loop
BusyCheckStep(v) ==
    /\ dpc[v] = "check"
    /\ dpc'[v] # "check" \/ contender_results'[v] # contender_results[v]

(* C11: in any pass over the contender list, when the busy check for a     *)
(* contender's miner answers true, the dispatcher records "skipped_busy"    *)
(* for that contender, asks no lease for and sends no query to that miner   *)
(* in that pass, and goes on to the next contender (or ends the pass).      *)
C11_BusyContenderIsSkipped ==
    /\ [](\A v \in Validators : \A i \in DOMAIN contender_results[v] :
            contender_results[v][i][2] = "skipped_busy" =>
                contender_results[v][i][1] \notin engaged[v])
    /\ [][\A v \in Validators : BusyCheckStep(v) /\ has_task'[v] =>
            /\ contender_results'[v] =
                  Append(contender_results[v], <<CurMiner(v), "skipped_busy">>)
            /\ UNCHANGED <<apiLease, redisLease, miner_tasks, engaged>>
            /\ dpc'[v] \in {"check", "backoff", "done"}
            /\ dpc'[v] = "check" =>
                  /\ dIdx'[v] = dIdx[v] + 1
                  /\ dAttempt'[v] = dAttempt[v]
            /\ dpc'[v] # "check" => dIdx[v] = Len(contenders[v])]_vars

\* a pass has skipped a busy contender and then queried the next one
C11_Witness ==
    \E v \in Validators : \E i, j \in DOMAIN contender_results[v] :
        /\ i < j
        /\ contender_results[v][i][2] = "skipped_busy"
        /\ contender_results[v][j][2] = "true"
        /\ contender_results[v][j][1] \in engaged[v]

(* C12: a uid appears in the vector set_weights hands to the chain only if *)
(* the current-cycle score the loop read for its hotkey is strictly greater *)
(* than 0; a miner with current-cycle score 0 is left out.                  *)
C12_OnlyScoredUidsSubmitted ==
    lastSet.submitted =>
        \A i \in DOMAIN lastSet.uids : lastSet.cycle[lastSet.uids[i] + 1]

(* C13: when the validator is neither blacklisted nor whitelisted, every   *)
(* weight set_weights computes is multiplied by the penalty coefficient     *)
(* before the minimum-weight threshold and the normalisation: a weight      *)
(* whose penalised value is below the threshold is submitted as 0.          *)
C13_PenaltyBeforeThreshold ==
    (lastSet.submitted /\ ~lastSet.whitelisted /\ ~lastSet.zero) =>
        \A i \in DOMAIN lastSet.computed :
            apply_whitelist_penalty(FALSE, FALSE, lastSet.penalty,
                                    lastSet.computed[i]) < MIN_WEIGHT_THRESHOLD
                => lastSet.weights[i] = 0

\* validator v is inside the contender loop of process_task_with_contenders
InContenderLoop(v) ==
    dpc[v] \in {"check", "allocate", "set", "process", "release", "backoff"}

\* some contender of the pass that ends with this step has succeeded
PassSucceeded(v) ==
    \E i \in DOMAIN contender_results'[v] : contender_results'[v][i][2] = "true"

(* C14: process_task_with_contenders makes at most 3 passes over the       *)
(* contender list; it returns true at the end of the first pass in which a  *)
(* contender succeeded, returns false only after 3 passes without a         *)
(* success, and always terminates.                                          *)
C14_AtMostThreePasses ==
    /\ [](\A v \in Validators :
            /\ dAttempt[v] \in 0..(max_retries - 1)
            /\ dpc[v] = "backoff" => ~dEverOk[v])
    /\ [][\A v \in Validators :
            /\ (InContenderLoop(v) /\ dpc'[v] = "done") =>
                  /\ dIdx[v] = Len(contenders[v])
                  /\ reports'[v] = Append(reports[v],
                        IF PassSucceeded(v) THEN "completed" ELSE "failed")
                  /\ ~PassSucceeded(v) =>
                        dAttempt[v] = max_retries - 1 /\ ~dEverOk'[v]
            /\ (InContenderLoop(v) /\ dpc[v] # "backoff"
                    /\ dpc'[v] = "backoff") =>
                  /\ dIdx[v] = Len(contenders[v])
                  /\ ~PassSucceeded(v)
                  /\ dAttempt[v] < max_retries - 1]_vars
    /\ (\E v \in Validators : InContenderLoop(v))
          ~> (\A v \in Validators : dpc[v] \in {"done", "off"})

\* a dispatch has returned false after its passes over the contenders
C14_Witness ==
    \E v \in Validators :
        /\ dpc[v] = "done"
        /\ reports[v] = <<"processing", "failed">>
        /\ contender_results[v] # <<>>

(* C15: the dispatcher sends a request to a miner only if the handshake    *)
(* map holds a session for the miner's hotkey with handshake_success true;  *)
(* when the session is missing or not ok no request is sent.                *)
C15_RequestOnlyWithSession ==
    \A v \in Validators : dSession[v] \in {"none", "stored"}

\* the dispatch coroutines of the queue processor that have not ended
InFlight == {i \in DOMAIN tasks : tasks[i].stage # "done"}

(* C16: at every instant at most MAX_CONCURRENT_TASKS dispatch coroutines   *)
(* started by the queue processor are in flight; the consumer pops a task   *)
(* only while it holds fewer than MAX_CONCURRENT_TASKS of them, and every    *)
(* task it pops gets its dispatch coroutine.                                 *)
C16_BoundedInFlight ==
    /\ [](/\ Cardinality(InFlight) <= MAX_CONCURRENT_TASKS
          /\ Len(tasks) <= MAX_CONCURRENT_TASKS
          /\ consPc \in {"pop", "srem"} => Len(tasks) < MAX_CONCURRENT_TASKS
          /\ consTask # 0 <=> consPc = "srem")
    /\ [][/\ Len(QUEUE') < Len(QUEUE) =>
               /\ consPc = "pop"
               /\ Len(tasks) < MAX_CONCURRENT_TASKS
               /\ consTask' = Head(QUEUE)
          /\ (consTask # 0 /\ consTask' # consTask) =>
               tasks' = Append(tasks, [id |-> consTask, stage |-> "created"])]_vars

\* a task waits in the queue while the only dispatch slot is taken and the
\* consumer is past its inner loop
C16_Witness ==
    /\ Cardinality(InFlight) = MAX_CONCURRENT_TASKS
    /\ QUEUE # <<>>
    /\ consPc \in {"qlen", "fetch", "add"}

(* C17: after a round in which the handshake with miner m fails, the       *)
(* session the dispatcher reads for m is not ok (handshake_success false    *)
(* or no entry), even if an earlier round had succeeded for m.              *)
C17_FailedHandshakeNotOk ==
    \A h \in Miners : node_handshake_data[h].failed => SessionRead(h) # "ok"

C19_RestoredIffRecent ==
    lastRestore.ran =>
        LET recent == /\ lastRestore.exists
                      /\ 2 * lastRestore.blocks_down < 3 * Tempo
        IN  /\ recent <=> rpc = "loaded"
            /\ ~recent =>
                  /\ hotkeys = lastRestore.hotkeys
                  /\ scores = [i \in DOMAIN hotkeys |-> 0]
                  /\ moving_avg_scores = [i \in DOMAIN hotkeys |-> 0]
                  /\ block_at_registration = BlockAtRegistration(hotkeys)
                  /\ lastRestore.total_blocks_run = 0

(* C20: in sus mode, when the observed metric or stream metric is off the  *)
(* contender's claimed value by more than 50%, the quality score resulting  *)
(* for the query is -10.0, unclamped, a reward record with quality score    *)
(* -10.0 (and response_time 999) is emitted, and no exception propagates.   *)
C20_SusScoreIsSentinel ==
    (outcome.done /\ job.cfg /\ job.sus \in {"mismatch", "stream_mismatch"}) =>
        /\ ~outcome.raised
        /\ outcome.produced /\ outcome.ret = SUS_SCORE
        /\ \E i \in DOMAIN outcome.rewards : outcome.rewards[i] = SUS_SCORE

(* C21: when a miner answers a query with HTTP 429, the contender's        *)
(* requests_429 counter is incremented by exactly 1, its requests_500       *)
(* counter is not incremented, the contender counts as failed, and the      *)
(* dispatch goes on to release the lease on the miner.                      *)
C21_RateLimitCounted ==
    \A v \in Validators :
        (dpc[v] = "release" /\ dStatus[v] = 429) =>
            /\ ~dQueryOk[v]
            /\ contender_stats[v].called
            /\ contender_stats[v].requests_429 = 1
            /\ contender_stats[v].requests_500 = 0

(* C22: after a successful weight submission the current-cycle history is  *)
(* empty and, for every hotkey that had entries in the ended cycle with     *)
(* mean c, the historical score is 0.3 c + 0.7 h_prev, or c if it is the    *)
(* hotkey's first cycle; a successful submission never resets historical    *)
(* scores to 0.                                                             *)
C22_CycleRolledIntoHistory ==
    (lastSet.ran /\ lastSet.ret) => (lastSet.cleared /\ lastSet.rolled)

(* C23: when a weight submission fails, by a rejection of the chain, the   *)
(* blacklist or an exception, the current-cycle scoring history and the     *)
(* historical scores are left unchanged and blocks_since_last_weights is    *)
(* not reset.                                                               *)
C23_FailedSubmissionKeepsCycle ==
    (lastSet.ran /\ ~lastSet.ret) => lastSet.kept

\* the chain has rejected the weights of a validator that had scoring
\* results and whose weights were due
C23_Witness ==
    /\ lastSet.ran /\ ~lastSet.ret /\ lastSet.submitted /\ lastSet.scored
    /\ ~lastSet.blacklisted
    /\ blocks_since_last_weights >= WeightsInterval
    /\ \E u \in Uids : scoring_results[u] # <<>>

(* C28: the main loop invokes set_weights in an iteration if and only if   *)
(* both the chain-reported blocks_since_last_update and the local           *)
(* blocks_since_last_weights are at least weights_interval; set_weights is  *)
(* never invoked when either is below it.                                   *)
C28_SetWeightsIffBothDue ==
    lastSet.looped =>
        (wpc = "loop" <=>
            /\ lastSet.chain >= WeightsInterval
            /\ blocks_since_last_weights >= WeightsInterval)

\* an iteration has invoked set_weights
C28_Witness ==
    /\ lastSet.looped /\ wpc = "loop"
    /\ lastSet.chain >= WeightsInterval
    /\ blocks_since_last_weights >= WeightsInterval

\* a step in which no loop whose flag is false goes on to a new dequeue,
\* fetch or handshake round
NoNewWork ==
    /\ (~running /\ consPc' \in {"pop", "fetch"}) => consPc' = consPc
    /\ (~tp_running /\ prodPc' = "fetch") => prodPc' = prodPc
    /\ (~handshake_running /\ hpc' = "round") => hpc' = hpc

(* C24: once shutdown has set the running flag of a background loop to     *)
(* false, the loop (queue processor, task producer, handshake timer) starts *)
(* no new dequeue, fetch or handshake round, and it eventually exits.       *)
C24_NoNewWorkAfterStop ==
    /\ [][NoNewWork]_vars
    /\ ~running ~> consPc = "exit"
    /\ ~tp_running ~> prodPc = "exit"
    /\ ~handshake_running ~> hpc = "exit"

\* the indices of the contenders a reward record was reported for
RewardedIndices(v) == {rewarded[v][k] : k \in DOMAIN rewarded[v]}

(* C25: within one task's dispatch the contenders are handled one at a     *)
(* time in list order, and the reward report for contender i is issued      *)
(* before the lease check for contender i+1 begins: the contenders handled  *)
(* so far in the pass are a prefix of the list, the reports issued are for  *)
(* the contender in hand or earlier ones, and when the check of a contender *)
(* begins the report of every earlier contender that succeeded is there and *)
(* none is for this contender or a later one.                               *)
C25_ContendersInOrder ==
    \A v \in Validators :
        InContenderLoop(v) =>
            /\ Len(contender_results[v]) =
                  IF dpc[v] = "backoff" THEN Len(contenders[v]) ELSE dIdx[v] - 1
            /\ \A k \in DOMAIN contender_results[v] :
                  /\ contender_results[v][k][1] = contenders[v][k]
                  /\ contender_results[v][k][2] = "true"
                        => k \in RewardedIndices(v)
            /\ \A k \in RewardedIndices(v) :
                  /\ k <= dIdx[v]
                  /\ dpc[v] \in {"check", "allocate", "set", "process"}
                        => k < dIdx[v]

\* the check of the second contender begins after the first one has
\* succeeded and its reward record has been reported
C25_Witness ==
    \E v \in Validators :
        /\ dpc[v] = "check" /\ dIdx[v] = 2
        /\ contender_results[v] = <<<<contenders[v][1], "true">>>>
        /\ rewarded[v] = <<1>>

\* C26: a contender whose lease set was refused by the lease API, or whose
\* set request failed there, is skipped: the dispatcher never stands before
\* the query of a contender with such a set behind it.
C26_RefusedSetSkipsContender ==
    \A v \in Validators :
        dpc[v] = "process" => set_answer[v] \notin {"refused", "failed"}

\* the step in which the SREM of the popped task's id fails
SremFails == consPc = "srem" /\ consTask \in srem_failed'

(* C27: when the SREM of a popped task's id fails, get_task_from_queue      *)
(* still returns the task: it gets its dispatch coroutine and the queue is  *)
(* left alone.  The id stays in the deduplication set and is not queued     *)
(* again, and every later add_task_to_queue for it returns false and        *)
(* pushes nothing.                                                          *)
C27_FailedSremKeepsTask ==
    /\ [](\A t \in srem_failed :
            /\ t \in SEEN
            /\ \A i \in DOMAIN QUEUE : QUEUE[i] # t)
    /\ [](lastAdd.stuck => (~lastAdd.ret /\ lastAdd.grew = 0))
    /\ [][SremFails =>
            /\ tasks' = Append(tasks, [id |-> consTask, stage |-> "created"])
            /\ QUEUE' = QUEUE]_vars

\* add_task_to_queue has reached Redis for an id whose SREM had failed, and
\* has returned false
C27_Witness ==
    /\ srem_failed # {}
    /\ lastAdd.ran /\ lastAdd.stuck /\ ~lastAdd.ret

(* C29: after a failed weight submission the main loop retries on a later   *)
(* block: the block it waits for next is later than the block at which the  *)
(* failed attempt ran; and the iteration that follows advances the local    *)
(* block counters by no more than the blocks that went by while it waited.  *)
C29_RetryOnLaterBlock ==
    /\ lastIter.failed => next_sync_block > lastIter.at
    /\ lastIter.retry => lastIter.advanced <= lastIter.waited

(* C30: every query result handed to adjust_contender_from_result, of a     *)
(* successful query or of a failed one (400, 429, 5xx, a stream that could  *)
(* not be parsed), adds exactly one ScoringResult for the miner to the      *)
(* scoring history.                                                         *)
C30_EveryResultIsRecorded ==
    (outcome.done /\ job.cfg /\ job.fault = "none") =>
        /\ Len(outcome.scoring) = 1
        /\ Len(scoring_results[0]) = 1

(* C31: for every query result handed to adjust_contender_from_result with  *)
(* a reward client at hand, exactly one reward record is sent, also when    *)
(* the query failed (a 500 built for a network error, or a status other     *)
(* than 200); the record of a failed query carries the score 0.             *)
C31_RewardForEveryQuery ==
    (outcome.done /\ job.cfg /\ job.fault = "none" /\ job.sus = "off"
        /\ job.reward_client) =>
        /\ Len(outcome.rewards) = 1
        /\ ~(job.status = 200 /\ job.success) => outcome.rewards[1] = 0

(* C32: once a chunk without the parsable content field has been met, the   *)
(* consumption of the stream stops: no later chunk is accepted, and the     *)
(* query result has success = false, whatever chunks follow.                *)
C32_BadChunkAbortsStream ==
    /\ [](query_result.built /\ lacked => ~query_result.success)
    /\ [][lacked => UNCHANGED <<text_jsons, out_tokens_counter>>]_vars

(* C33: once a chunk with finish_reason has been accepted the stream is     *)
(* over: no later chunk is taken from it, counted in completion_tokens or   *)
(* appended to the formatted response.                                      *)
C33_FinishEndsStream ==
    /\ [][finished => UNCHANGED <<text_jsons, out_tokens_counter>>]_vars
    /\ [](query_result.built /\ finished =>
            query_result.formatted_response[Len(query_result.formatted_response)]
                = "finish")

(* C34: set_weights gives no uid a place in the weight vector whose neuron  *)
(* has ip 0.0.0.0, is a validator, or is inactive while CHECK_NODE_ACTIVE   *)
(* is set.                                                                  *)
C34_UnfitUidsGetNoWeight == ~lastSet.weighed_unfit

\* the last entry of the pass's contender_results
LastResult(v) == contender_results[v][Len(contender_results[v])]

(* C35: an exception raised while dispatching to a contender does not end   *)
(* the contender loop and does not escape process_queue_task: the           *)
(* contender is recorded as failed and the loop goes on to the next         *)
(* contender, or ends the pass after the last one as after any failure.     *)
C35_ExceptionKeepsLoopGoing ==
    \A v \in Validators :
        dRaised[v] =>
            /\ contender_results[v] # <<>>
            /\ LastResult(v)[2] = "false"
            /\ \/ /\ dpc[v] = "check"
                  /\ dIdx[v] = Len(contender_results[v]) + 1
                  /\ CurMiner(v) # LastResult(v)[1]
               \/ /\ dpc[v] = "backoff"
                  /\ Len(contender_results[v]) = Len(contenders[v])
               \/ /\ dpc[v] = "done"
                  /\ reports[v][Len(reports[v])] =
                        TerminalStatus(\E i \in DOMAIN contender_results[v] :
                                          contender_results[v][i][2] = "true")

\* the dispatch to the first contender has raised and the second contender
\* is at its busy check
C35_Witness ==
    \E v \in Validators :
        /\ dRaised[v]
        /\ dpc[v] = "check" /\ dIdx[v] = 2
        /\ contender_results[v] = <<<<contenders[v][1], "false">>>>

\* C36: when the saved validator state cannot be deserialized at startup, the
\* stored key is deleted and the validator goes on into its main loop with
\* fresh arrays: run never ends in the exception, and once startup is over
\* no garbled blob is left under the key.
C36_CorruptStateStartsFresh ==
    /\ rpc # "raised"
    /\ rpc # "start" => saved_state # "garbled"

\* the stores validator v can read hold a lease on miner m: the lease API,
\* the Redis fallback key, or v's own miner_tasks map
LeaseReadable(v, m) ==
    \/ apiLease[m] # 0
    \/ redisLease[m] # 0
    \/ m \in miner_tasks[v]

\* C37: a lease is visible wherever it was stored: while any of the three
\* stores holds a lease on a miner, the busy check of the contender loop
\* answers true for that miner, so the loop never goes on to allocate it.
C37_StoredLeaseIsSeen ==
    [][\A v \in Validators :
          (dpc[v] = "check" /\ dpc'[v] = "allocate") =>
              ~LeaseReadable(v, CurMiner(v))]_vars

\* C38: releasing a lease removes only the releasing task's own lease: when
\* a dispatcher finishes its work on a miner whose lease is by then held by
\* another validator's task, the release leaves that lease in its store.
C38_ReleaseKeepsOthersLease ==
    [][\A v \in Validators :
          dpc[v] = "release" /\ dpc'[v] # "release" =>
              \A w \in Validators \ {v} :
                  /\ apiLease[CurMiner(v)] = w => apiLease'[CurMiner(v)] = w
                  /\ redisLease[CurMiner(v)] = w => redisLease'[CurMiner(v)] = w]_vars

\* C39: no scoring result is lost to the cycle rollover: a result appended
\* while set_weights runs, after the loop has read the scores of its uid, is
\* not cleared by that run, so that a later submission can count it.
C39_NoResultLostAtRollover ==
    (lastSet.ran /\ lastSet.late) => ~lastSet.cleared

\* C40: under any interleaving of add_task_to_queue, get_task_from_queue
\* and clear_queue, every id in the queue list is in the dedup set and no
\* id occurs twice in the queue list.
C40_QueueWithinDedupSet ==
    /\ \A i \in DOMAIN QUEUE : QUEUE[i] \in SEEN
    /\ \A i, j \in DOMAIN QUEUE : i # j => QUEUE[i] # QUEUE[j]

=============================================================================
